---- MODULE Spec2Model ----
(***************************************************************************)
(* Descriptor-ring I/O engines of the ull_nic userspace NIC drivers:       *)
(*   - BroadcomNetXtreme   (broadcom_netxtreme header, src/unnamed/part_001)*)
(*   - CustomNICDriver     (src/include/ull_nic/custom_driver.hpp)         *)
(* Software operations are translated from the C++ methods; the NIC is the *)
(* environment.  The NIC follows the head/tail register contract the       *)
(* drivers program: it owns the descriptors from its head register up to,  *)
(* but not including, the tail register software writes, fills them in     *)
(* index order and marks each one done (DD) when it has finished with it.  *)
(***************************************************************************)
EXTENDS Integers, Naturals, Sequences, FiniteSets, TLC

(***************************************************************************)
(* Bounds of the model.                                                    *)
(***************************************************************************)
\* log2 of the ring capacity: the rings "must be power of 2" (1024 and 512
\* in the source); the model keeps the power of two and scales it down.
RingBits == 2
\* frames the NIC delivers on the RX side in one run
MaxFrames == 9
\* send_packet / submit_tx calls accepted in one run
MaxSent == 9
\* initialize() calls on one instance in one run
MaxInitCalls == 2
\* runs of the teardown on one instance in one run
MaxCleanups == 2
\* data-path calls of each kind explored on an instance that is not Running
MaxNotRunningCalls == 2
\* frames delivered, and frames sent, on an instance that is initialized
\* more than once
MaxReinitTraffic == 2

(***************************************************************************)
(* Program constants.                                                      *)
(***************************************************************************)
RX_RING_SIZE == 2 ^ RingBits
TX_RING_SIZE == 2 ^ RingBits
MAX_PACKET_SIZE == 9216
DESC_STATUS_DD == 1
CTRL_RX_ENABLE == 2
CTRL_TX_ENABLE == 1
DESC_CMD_EOP == 16777216
DESC_CMD_IFCS == 33554432

\* CustomNICDriver (namespace ull_nic)
C_RX_RING_SIZE == 2 ^ RingBits
C_TX_RING_SIZE == 2 ^ RingBits
PACKET_BUFFER_SIZE == 2048
RX_DD_BIT == 1
TX_DD_BIT == 1
PAGE_SIZE == 4096

RxSlots == 0 .. (RX_RING_SIZE - 1)
TxSlots == 0 .. (TX_RING_SIZE - 1)

\* values the NIC may write into the 16-bit RX length field
HwRxLens == {64, 65535}
\* uint16_t lengths callers pass to send_packet: a minimum frame and a
\* frame of two buffers and one byte
TxLens == {64, 2 * MAX_PACKET_SIZE + 1}

C_RxSlots == 0 .. (C_RX_RING_SIZE - 1)
C_TxSlots == 0 .. (C_TX_RING_SIZE - 1)
\* values the NIC may write into the 16-bit pkt_len field
C_HwRxLens == {64, 65535}
\* size_t lengths callers pass to submit_tx
C_TxLens == {64, PACKET_BUFFER_SIZE, PACKET_BUFFER_SIZE + 1}

(***************************************************************************)
(* Bit operations of the code, on naturals.                                *)
(***************************************************************************)
RECURSIVE BitAnd(_, _)
BitAnd(a, b) ==
    IF a = 0 \/ b = 0 THEN 0
    ELSE (a % 2) * (b % 2) + 2 * BitAnd(a \div 2, b \div 2)

RECURSIVE BitOr(_, _)
BitOr(a, b) ==
    IF a = 0 THEN b
    ELSE IF b = 0 THEN a
    ELSE (IF (a % 2) + (b % 2) > 0 THEN 1 ELSE 0) + 2 * BitOr(a \div 2, b \div 2)

\* (i + 1) & (size - 1)
NextIndex_skip(i, size) == BitAnd(i + 2, size - 1)
NextIndex(i, size) == BitAnd(i + 1, size - 1)

\* (i - 1) & (size - 1) in uint32_t: 0 - 1 is 0xFFFFFFFF, whose low bits
\* under the mask are size - 1
PrevIndex_newHead(i, size) == i
PrevIndex_next(i, size) == BitAnd(i + 1, size - 1)
PrevIndex(i, size) == IF i = 0 THEN size - 1 ELSE BitAnd(i - 1, size - 1)

\* desc->status & DESC_STATUS_DD
HasDD_always(status) == TRUE
HasDD(status) == BitAnd(status, DESC_STATUS_DD) # 0

\* desc->status = 0 ("clear status for reuse")
RxStatusCleared_kept(status) == status
RxStatusCleared(status) == 0

\* desc->status = 0 in send_packet: the DD of the slot's previous
\* transmission is cleared when the slot is submitted again
TxStatusCleared_kept(status) == status
TxStatusCleared(status) == 0

(***************************************************************************)
(* State.                                                                  *)
(***************************************************************************)
VARIABLES
    \* ---- BroadcomNetXtreme ----
    initialized_,       \* bool initialized_
    rx_ring_,           \* RxDescriptor* rx_ring_ : slot -> descriptor
    rx_buffers_,        \* uint8_t* rx_buffers_   : slot -> frame held by the slot's buffer
    rx_head_,           \* uint32_t rx_head_
    packets_received_,  \* uint64_t packets_received_
    reg_rx_head,        \* REG_RX_RING_HEAD (advanced by the NIC)
    reg_rx_tail,        \* REG_RX_RING_TAIL (written by software)
    reg_rx_ctrl,        \* REG_RX_CONTROL
    rx_out,             \* receive_packet's result and out-parameters
    hw_rx_count,        \* frames the NIC has delivered so far
    tx_ring_,           \* TxDescriptor* tx_ring_ : slot -> descriptor
    tx_buffers_,        \* uint8_t* tx_buffers_   : slot -> frame whose bytes the buffer holds
    tx_head_,           \* uint32_t tx_head_
    tx_tail_,           \* uint32_t tx_tail_
    packets_sent_,      \* uint64_t packets_sent_
    reg_tx_head,        \* REG_TX_RING_HEAD (advanced by the NIC)
    reg_tx_tail,        \* REG_TX_RING_TAIL (written by software)
    reg_tx_ctrl,        \* REG_TX_CONTROL
    tx_out,             \* send_packet's result
    tx_inflight,        \* slot -> submitted to the NIC and not yet completed
    tx_mem,             \* what memcpy did beyond the TX buffer pool
    sp_pc,              \* send_packet taken statement by statement: the next statement
    sp_len,             \* its length argument
    rc_iters,           \* iterations of the reclaim loop in the current send_packet
    nic_tx_ring,        \* tx_ring_ as DMA reads see it (stores that reached memory)
    nic_tx_buffers,     \* tx_buffers_ as DMA reads see it
    heap,               \* bar0_base_, rx_ring_, tx_ring_, rx_buffers_, tx_buffers_ as pointers
    life_pc,            \* initialize() / cleanup() taken step by step: the next step
    init_out,           \* initialize's result
    init_fault,         \* the step of the current initialize() that the environment failed
    init_calls,         \* initialize() calls made
    cleanup_calls,      \* cleanup() runs made
    reg_rx_base,        \* REG_RX_RING_BASE_LO/HI
    reg_rx_size,        \* REG_RX_RING_SIZE
    reg_tx_base,        \* REG_TX_RING_BASE_LO/HI
    reg_tx_size,        \* REG_TX_RING_SIZE
    ub_log,             \* the undefined operations performed so far
    reg_dev_reset,      \* REG_DEVICE_CONTROL: TRUE while CTRL_DEVICE_RESET is set
    rd_i,               \* reset_device's loop variable i
    \* ---- CustomNICDriver ----
    c_initialized_,     \* bool initialized_
    c_rx_ring_,         \* RXDescriptor* rx_ring_ : slot -> descriptor
    c_rx_buffers_,      \* uint8_t* rx_buffers_[] : slot -> frame held by the buffer
    c_rx_head_,         \* uint32_t rx_head_
    c_reg_rx_head,      \* registers::RX_HEAD (HW writes)
    c_reg_rx_tail,      \* registers::RX_TAIL (SW writes)
    c_rx_out,           \* poll_rx's result and out-parameters
    c_hw_rx_count,      \* frames the NIC has delivered so far
    c_rx_returned,      \* frames poll_rx / busy_wait_loop have handed to the caller
    c_tx_ring_,         \* TXDescriptor* tx_ring_ : slot -> descriptor
    c_tx_buffers_,      \* uint8_t* tx_buffers_[] : slot -> frame whose bytes it holds
    c_tx_tail_,         \* uint32_t tx_tail_
    c_reg_tx_head,      \* registers::TX_HEAD (HW writes)
    c_reg_tx_tail,      \* registers::TX_TAIL (SW writes)
    c_tx_out,           \* submit_tx's result
    c_tx_inflight,      \* slot -> submitted and not yet transmitted
    c_tx_count,         \* frames submit_tx has accepted
    c_st_pc,            \* submit_tx taken statement by statement: the next statement
    c_st_len,           \* its packet_len argument
    c_nic_tx_ring,      \* tx_ring_ as DMA reads see it (stores that reached memory)
    c_nic_tx_buffers,   \* tx_buffers_[] as DMA reads see them
    c_init_out,         \* initialize's result, and the number of calls so far
    c_alloc             \* what each pointer member names: bar0_base_, the rings, the buffers

\* SolarflareEFVI (include/ull_nic/solarflare_efvi.hpp)
VARIABLES
    s_initialized_,     \* initialized_
    s_rx_posted_,       \* rx_posted_
    s_tx_posted_,       \* tx_posted_
    s_pkt_bufs,         \* handle_.pkt_bufs: buffer id -> pointer value
    s_pkt,              \* the efvi_packet the caller hands to poll_rx
    s_rx_out,           \* last poll_rx call: [called, ret]
    s_tx_out,           \* last submit_tx call: [called, ret]
    s_mem,              \* "ok", or what a copy through a bad pointer did
    s_init_calls        \* initialize() calls made

bcmRxVars == <<rx_ring_, rx_buffers_, rx_head_, packets_received_,
               reg_rx_head, reg_rx_tail, reg_rx_ctrl, rx_out, hw_rx_count>>
bcmTxVars == <<tx_ring_, tx_buffers_, tx_head_, tx_tail_, packets_sent_,
               reg_tx_head, reg_tx_tail, reg_tx_ctrl, tx_out, tx_inflight, tx_mem,
               sp_pc, sp_len, rc_iters, nic_tx_ring, nic_tx_buffers>>
bcmLifeVars == <<heap, life_pc, init_out, init_fault, init_calls, cleanup_calls,
                 reg_rx_base, reg_rx_size, reg_tx_base, reg_tx_size, ub_log,
                 reg_dev_reset, rd_i>>
bcmVars == <<initialized_, bcmRxVars, bcmTxVars, bcmLifeVars>>

custRxVars == <<c_rx_ring_, c_rx_buffers_, c_rx_head_, c_reg_rx_head,
                c_reg_rx_tail, c_rx_out, c_hw_rx_count, c_rx_returned>>
custTxVars == <<c_tx_ring_, c_tx_buffers_, c_tx_tail_, c_reg_tx_head,
                c_reg_tx_tail, c_tx_out, c_tx_inflight, c_tx_count,
                c_st_pc, c_st_len, c_nic_tx_ring, c_nic_tx_buffers>>
custInitVars == <<c_init_out, c_alloc>>
custVars == <<c_initialized_, custRxVars, custTxVars, custInitVars>>

solVars == <<s_initialized_, s_rx_posted_, s_tx_posted_, s_pkt_bufs, s_pkt,
             s_rx_out, s_tx_out, s_mem, s_init_calls>>

vars == <<bcmVars, custVars, solVars>>

\* a ring pointer that is still nullptr
NullRing == <<>>

\* the pointer members that name mapped or allocated memory
Res == {"bar0_base_", "rx_ring_", "tx_ring_", "rx_buffers_", "tx_buffers_"}

\* a pointer member before anything was assigned to it
NullPtr == [ptr |-> "null", how |-> "none", addr |-> 0, freed |-> 0]

\* the pointer after a successful mmap ("mmap") or aligned_alloc ("malloc"):
\* a block of its own, not yet released
Allocated(old, how) ==
    [ptr |-> "valid", how |-> how, addr |-> old.addr + 1, freed |-> 0]

\* every pointer names live memory, no call is in progress: Running
BcmRunning ==
    /\ life_pc = "idle"
    /\ \A r \in Res : heap[r].ptr = "valid"

(***************************************************************************)
(* BroadcomNetXtreme: construction and initialize().                       *)
(***************************************************************************)
BcmInit ==
    /\ initialized_ = FALSE
    /\ rx_ring_ = NullRing
    /\ tx_ring_ = NullRing
    /\ rx_buffers_ = NullRing
    /\ tx_buffers_ = NullRing
    /\ rx_head_ = 0
    /\ tx_head_ = 0
    /\ tx_tail_ = 0
    /\ packets_received_ = 0
    /\ packets_sent_ = 0
    /\ reg_rx_head = 0
    /\ reg_rx_tail = 0
    /\ reg_rx_ctrl = 0
    /\ reg_tx_head = 0
    /\ reg_tx_tail = 0
    /\ reg_tx_ctrl = 0
    /\ rx_out = [called |-> FALSE, ret |-> FALSE, packet_out |-> -1,
                 len_out |-> 0, frame |-> 0]
    /\ tx_out = [called |-> FALSE, ret |-> FALSE]
    /\ hw_rx_count = 0
    /\ tx_inflight = [i \in TxSlots |-> FALSE]
    /\ tx_mem = "ok"
    /\ sp_pc = "idle"
    /\ sp_len = 0
    /\ rc_iters = 0
    /\ nic_tx_ring = NullRing
    /\ nic_tx_buffers = NullRing
    /\ heap = [r \in Res |-> NullPtr]
    /\ life_pc = "idle"
    /\ init_out = [called |-> FALSE, ret |-> FALSE]
    /\ init_fault = "none"
    /\ init_calls = 0
    /\ cleanup_calls = 0
    /\ reg_rx_base = 0
    /\ reg_rx_size = 0
    /\ reg_tx_base = 0
    /\ reg_tx_size = 0
    /\ ub_log = {}
    /\ reg_dev_reset = FALSE
    /\ rd_i = 0

\* get_physical_addr(rx_buffers_ + i * MAX_PACKET_SIZE), as an offset from
\* the pool's base
BufferAddr_neighbour(i) == ((i + 1) % RX_RING_SIZE) * MAX_PACKET_SIZE
BufferAddr(i) == i * MAX_PACKET_SIZE

\* the slot whose buffer starts at a physical address
SlotOfAddr(addr) == addr \div MAX_PACKET_SIZE

\* initialize(), every step succeeding: allocate_rings() zeroes both rings
\* and binds RX descriptor i to RX buffer i; the ring registers are
\* programmed; enable_rx_tx() sets the enable bits; initialized_ = true.
BcmInitialize ==
    /\ initialized_ = FALSE
    /\ life_pc = "idle"
    /\ init_calls = 0
    /\ heap' = [r \in Res |->
                  Allocated(heap[r], IF r \in {"rx_ring_", "tx_ring_"}
                                     THEN "malloc" ELSE "mmap")]
    /\ init_out' = [called |-> TRUE, ret |-> TRUE]
    /\ init_calls' = init_calls + 1
    /\ reg_rx_base' = heap'["rx_ring_"].addr
    /\ reg_rx_size' = RX_RING_SIZE
    /\ reg_tx_base' = heap'["tx_ring_"].addr
    /\ reg_tx_size' = TX_RING_SIZE
    /\ rx_ring_' = [i \in RxSlots |->
                      [buffer_addr |-> BufferAddr(i), length |-> 0, status |-> 0]]
    /\ tx_ring_' = [i \in TxSlots |->
                      [buffer_addr |-> 0, cmd_type_len |-> 0, status |-> 0]]
    /\ rx_buffers_' = [i \in RxSlots |-> 0]
    /\ tx_buffers_' = [i \in TxSlots |-> 0]
    /\ nic_tx_ring' = tx_ring_'
    /\ nic_tx_buffers' = tx_buffers_'
    /\ reg_rx_head' = 0
    /\ reg_rx_tail' = RX_RING_SIZE - 1
    /\ reg_tx_head' = 0
    /\ reg_tx_tail' = 0
    /\ reg_rx_ctrl' = BitOr(reg_rx_ctrl, CTRL_RX_ENABLE)
    /\ reg_tx_ctrl' = BitOr(reg_tx_ctrl, CTRL_TX_ENABLE)
    /\ initialized_' = TRUE
    /\ UNCHANGED <<rx_head_, tx_head_, tx_tail_, packets_received_, packets_sent_,
                   rx_out, tx_out, hw_rx_count, tx_inflight, tx_mem, sp_pc, sp_len, rc_iters,
                   life_pc, init_fault, cleanup_calls, ub_log,
                   reg_dev_reset, rd_i, custVars, solVars>>

\* the two ring tail registers of the window, by name
TailRegisters ==
    [REG_RX_RING_TAIL |-> reg_rx_tail, REG_TX_RING_TAIL |-> reg_tx_tail]

\* write_reg(offset, value): the registers after the 32-bit store
write_reg(regs, offset, value) == [regs EXCEPT ![offset] = value]

\* the register receive_packet writes after it has advanced rx_head_
RxTailRegister_txTail == "REG_TX_RING_TAIL"
RxTailRegister == "REG_RX_RING_TAIL"

(***************************************************************************)
(* BroadcomNetXtreme: RX path.                                             *)
(***************************************************************************)
\* The NIC receives a frame: it owns the descriptors from REG_RX_RING_HEAD
\* up to, not including, REG_RX_RING_TAIL; it DMAs the frame into the
\* buffer the descriptor at its head names, writes the length and the DD
\* status, and advances its head.
HwRxWrite(len) ==
    /\ BitAnd(reg_rx_ctrl, CTRL_RX_ENABLE) # 0
    /\ reg_rx_head # reg_rx_tail
    /\ hw_rx_count < MaxFrames
    /\ LET slot == reg_rx_head
           buf  == SlotOfAddr(rx_ring_[slot].buffer_addr)
       IN /\ rx_buffers_' = [rx_buffers_ EXCEPT ![buf] = hw_rx_count + 1]
          /\ rx_ring_' = [rx_ring_ EXCEPT ![slot].length = len,
                                          ![slot].status = DESC_STATUS_DD]
          /\ reg_rx_head' = (slot + 1) % RX_RING_SIZE
    /\ hw_rx_count' = hw_rx_count + 1
    /\ UNCHANGED <<initialized_, rx_head_, packets_received_, reg_rx_tail,
                   reg_rx_ctrl, rx_out, bcmTxVars, bcmLifeVars, custVars, solVars>>

\* packets_received_++ and packets_sent_++
Incremented_twice(counter) == counter + 2
Incremented(counter) == counter + 1

\* receive_packet(&packet_out, &len_out)
ReceivePacket ==
    /\ initialized_
    /\ BcmRunning
    /\ tx_mem # "segv"
    /\ LET desc == rx_ring_[rx_head_]
       IN IF ~HasDD(desc.status)
          THEN /\ rx_out' = [rx_out EXCEPT !.called = TRUE, !.ret = FALSE]
               /\ UNCHANGED <<rx_ring_, rx_head_, reg_rx_tail, reg_tx_tail,
                              packets_received_>>
          ELSE /\ rx_out' = [called |-> TRUE, ret |-> TRUE,
                             packet_out |-> rx_head_ * MAX_PACKET_SIZE,
                             len_out |-> desc.length,
                             frame |-> rx_buffers_[rx_head_]]
               /\ rx_ring_' = [rx_ring_ EXCEPT
                                 ![rx_head_].status = RxStatusCleared(desc.status)]
               /\ rx_head_' = NextIndex(rx_head_, RX_RING_SIZE)
               /\ LET regs == write_reg(TailRegisters, RxTailRegister,
                                        PrevIndex(rx_head_', RX_RING_SIZE))
                  IN /\ reg_rx_tail' = regs.REG_RX_RING_TAIL
                     /\ reg_tx_tail' = regs.REG_TX_RING_TAIL
               /\ packets_received_' = Incremented(packets_received_)
    /\ UNCHANGED <<initialized_, rx_buffers_, reg_rx_head, reg_rx_ctrl,
                   hw_rx_count, tx_ring_, tx_buffers_, tx_head_, tx_tail_,
                   packets_sent_, reg_tx_head, reg_tx_ctrl, tx_out, tx_inflight,
                   tx_mem, sp_pc, sp_len, rc_iters, nic_tx_ring, nic_tx_buffers,
                   bcmLifeVars, custVars, solVars>>

(***************************************************************************)
(* BroadcomNetXtreme: TX path.                                             *)
(***************************************************************************)
\* The NIC transmits the frame of the descriptor at REG_TX_RING_HEAD, one
\* of those software handed over through REG_TX_RING_TAIL, writes DD into
\* its status and advances its head.
HwTxComplete ==
    /\ BitAnd(reg_tx_ctrl, CTRL_TX_ENABLE) # 0
    /\ reg_tx_head # reg_tx_tail
    /\ LET slot == reg_tx_head
       IN /\ tx_ring_' = [tx_ring_ EXCEPT
                            ![slot].status = BitOr(tx_ring_[slot].status, DESC_STATUS_DD)]
          /\ nic_tx_ring' = [nic_tx_ring EXCEPT
                            ![slot].status = BitOr(nic_tx_ring[slot].status, DESC_STATUS_DD)]
          /\ reg_tx_head' = (slot + 1) % TX_RING_SIZE
          /\ tx_inflight' = [tx_inflight EXCEPT ![slot] = FALSE]
    /\ UNCHANGED <<initialized_, tx_buffers_, tx_head_, tx_tail_, packets_sent_,
                   reg_tx_tail, reg_tx_ctrl, tx_out, tx_mem, sp_pc, sp_len, rc_iters,
                   nic_tx_buffers, bcmRxVars, bcmLifeVars, custVars, solVars>>

\* reclaim_tx_descriptors(): the value of tx_head_ when the loop ends
reclaim_tx_descriptors_never(head, tail, ring) == head
reclaim_tx_descriptors_skipDD(head, tail, ring) == tail
RECURSIVE reclaim_tx_descriptors(_, _, _)
reclaim_tx_descriptors(head, tail, ring) ==
    IF head # tail /\ HasDD(ring[head].status)
    THEN reclaim_tx_descriptors(NextIndex(head, TX_RING_SIZE), tail, ring)
    ELSE head

\* the full-ring test of send_packet: next_tail == tx_head_
TxRingFull_offByOne(next_tail, head) == NextIndex(next_tail, TX_RING_SIZE) = head
TxRingFull(next_tail, head) == next_tail = head

\* std::memcpy(tx_buffers_ + slot * MAX_PACKET_SIZE, data, length): the
\* buffers of the pool are contiguous, so the bytes cover the slot's buffer
\* and, past MAX_PACKET_SIZE, those of the slots that follow it in memory.
TxCopy(bufs, slot, len, id) ==
    [j \in TxSlots |->
        IF j >= slot /\ (j - slot) * MAX_PACKET_SIZE < len THEN id ELSE bufs[j]]

\* the copy runs past the end of the pool: undefined behaviour
TxCopyOverruns(slot, len) ==
    slot * MAX_PACKET_SIZE + len > TX_RING_SIZE * MAX_PACKET_SIZE

\* send_packet(data, length).  A copy that runs past the pool either faults
\* (the call never returns) or lands in whatever memory follows the pool.
SendPacket(len) ==
    /\ initialized_
    /\ BcmRunning
    /\ tx_mem # "segv"
    /\ sp_pc = "idle"
    /\ packets_sent_ < MaxSent
    /\ LET next_tail == NextIndex(tx_tail_, TX_RING_SIZE)
           head1 == IF TxRingFull(next_tail, tx_head_)
                    THEN reclaim_tx_descriptors(tx_head_, tx_tail_, tx_ring_)
                    ELSE tx_head_
           id == packets_sent_ + 1
       IN /\ tx_head_' = head1
          /\ IF TxRingFull(next_tail, tx_head_) /\ TxRingFull(next_tail, head1)
             THEN /\ tx_out' = [called |-> TRUE, ret |-> FALSE]
                  /\ UNCHANGED <<tx_ring_, tx_buffers_, tx_tail_, packets_sent_,
                                 reg_tx_tail, tx_inflight, tx_mem,
                                 nic_tx_ring, nic_tx_buffers>>
             ELSE \E outcome \in (IF TxCopyOverruns(tx_tail_, len)
                                  THEN {"segv", "clobbered"} ELSE {tx_mem}) :
                  /\ tx_mem' = outcome
                  /\ tx_buffers_' = TxCopy(tx_buffers_, tx_tail_, len, id)
                  /\ nic_tx_buffers' = tx_buffers_'
                  /\ IF outcome = "segv"
                     THEN UNCHANGED <<tx_ring_, nic_tx_ring, tx_tail_, packets_sent_,
                                      reg_tx_tail, tx_inflight, tx_out>>
                     ELSE /\ tx_ring_' = [tx_ring_ EXCEPT ![tx_tail_] =
                                 [buffer_addr |-> BufferAddr(tx_tail_),
                                  cmd_type_len |->
                                      BitOr(len, BitOr(DESC_CMD_EOP, DESC_CMD_IFCS)),
                                  status |-> TxStatusCleared(tx_ring_[tx_tail_].status)]]
                          /\ nic_tx_ring' = tx_ring_'
                          /\ tx_tail_' = next_tail
                          /\ reg_tx_tail' = tx_tail_'
                          /\ tx_inflight' = [tx_inflight EXCEPT ![tx_tail_] = TRUE]
                          /\ packets_sent_' = Incremented(packets_sent_)
                          /\ tx_out' = [called |-> TRUE, ret |-> TRUE]
    /\ UNCHANGED <<initialized_, reg_tx_head, reg_tx_ctrl, sp_pc, sp_len, rc_iters,
                   bcmRxVars, bcmLifeVars, custVars, solVars>>

(***************************************************************************)
(* BroadcomNetXtreme: send_packet statement by statement.  The stores to   *)
(* the buffer and to the descriptor reach the memory DMA reads see at some *)
(* later moment of their own, or at the store barrier at the latest; the   *)
(* store to the tail register reaches the NIC when it is executed.         *)
(***************************************************************************)
\* _mm_sfence(): every store issued before it has reached memory
mm_sfence_noBarrier(cpu_view, nic_view) == nic_view
mm_sfence(cpu_view, nic_view) == cpu_view

\* lines 259-266: the full-ring test and the reclaim pass
SendPacketBegin(len) ==
    /\ initialized_
    /\ BcmRunning
    /\ tx_mem # "segv"
    /\ sp_pc = "idle"
    /\ packets_sent_ < MaxSent
    /\ LET next_tail == NextIndex(tx_tail_, TX_RING_SIZE)
           head1 == IF TxRingFull(next_tail, tx_head_)
                    THEN reclaim_tx_descriptors(tx_head_, tx_tail_, tx_ring_)
                    ELSE tx_head_
       IN /\ tx_head_' = head1
          /\ IF TxRingFull(next_tail, tx_head_) /\ TxRingFull(next_tail, head1)
             THEN /\ tx_out' = [called |-> TRUE, ret |-> FALSE]
                  /\ UNCHANGED <<sp_pc, sp_len>>
             ELSE /\ sp_pc' = "memcpy"
                  /\ sp_len' = len
                  /\ UNCHANGED tx_out
    /\ UNCHANGED <<initialized_, tx_ring_, tx_buffers_, tx_tail_, packets_sent_,
                   reg_tx_head, reg_tx_tail, reg_tx_ctrl, tx_inflight, tx_mem,
                   nic_tx_ring, nic_tx_buffers,
                   rc_iters, bcmRxVars, bcmLifeVars, custVars, solVars>>

\* lines 268-272: std::memcpy(tx_buffer, data, length)
SendPacketCopy ==
    /\ sp_pc = "memcpy"
    /\ tx_mem # "segv"
    /\ tx_buffers_' = TxCopy(tx_buffers_, tx_tail_, sp_len, packets_sent_ + 1)
    /\ \E outcome \in (IF TxCopyOverruns(tx_tail_, sp_len)
                       THEN {"segv", "clobbered"} ELSE {tx_mem}) :
          /\ tx_mem' = outcome
          /\ sp_pc' = IF outcome = "segv" THEN sp_pc ELSE "descriptor"
    /\ UNCHANGED <<initialized_, tx_ring_, tx_head_, tx_tail_, packets_sent_,
                   reg_tx_head, reg_tx_tail, reg_tx_ctrl, tx_out, tx_inflight,
                   sp_len, rc_iters, nic_tx_ring, nic_tx_buffers,
                   bcmRxVars, bcmLifeVars, custVars, solVars>>

\* lines 274-279: the descriptor fields
SendPacketDescriptor ==
    /\ sp_pc = "descriptor"
    /\ tx_ring_' = [tx_ring_ EXCEPT ![tx_tail_] =
                      [buffer_addr |-> BufferAddr(tx_tail_),
                       cmd_type_len |->
                           BitOr(sp_len, BitOr(DESC_CMD_EOP, DESC_CMD_IFCS)),
                       status |-> TxStatusCleared(tx_ring_[tx_tail_].status)]]
    /\ sp_pc' = "sfence"
    /\ UNCHANGED <<initialized_, tx_buffers_, tx_head_, tx_tail_, packets_sent_,
                   reg_tx_head, reg_tx_tail, reg_tx_ctrl, tx_out, tx_inflight,
                   tx_mem, sp_len, rc_iters, nic_tx_ring, nic_tx_buffers,
                   bcmRxVars, bcmLifeVars, custVars, solVars>>

\* lines 281-282: _mm_sfence()
SendPacketFence ==
    /\ sp_pc = "sfence"
    /\ nic_tx_ring' = mm_sfence(tx_ring_, nic_tx_ring)
    /\ nic_tx_buffers' = mm_sfence(tx_buffers_, nic_tx_buffers)
    /\ sp_pc' = "tail"
    /\ UNCHANGED <<initialized_, tx_ring_, tx_buffers_, tx_head_, tx_tail_,
                   packets_sent_, reg_tx_head, reg_tx_tail, reg_tx_ctrl, tx_out,
                   tx_inflight, tx_mem, sp_len, rc_iters,
                   bcmRxVars, bcmLifeVars, custVars, solVars>>

\* lines 284-289: tx_tail_, the tail register, packets_sent_, return true
SendPacketTail ==
    /\ sp_pc = "tail"
    /\ tx_tail_' = NextIndex(tx_tail_, TX_RING_SIZE)
    /\ reg_tx_tail' = tx_tail_'
    /\ tx_inflight' = [tx_inflight EXCEPT ![tx_tail_] = TRUE]
    /\ packets_sent_' = Incremented(packets_sent_)
    /\ tx_out' = [called |-> TRUE, ret |-> TRUE]
    /\ sp_pc' = "idle"
    /\ sp_len' = 0
    /\ UNCHANGED <<initialized_, tx_ring_, tx_buffers_, tx_head_, reg_tx_head,
                   reg_tx_ctrl, tx_mem, nic_tx_ring, nic_tx_buffers,
                   rc_iters, bcmRxVars, bcmLifeVars, custVars, solVars>>

\* stores issued so far reach memory without a barrier
TxStoresDrain ==
    /\ initialized_
    /\ <<nic_tx_ring, nic_tx_buffers>> # <<tx_ring_, tx_buffers_>>
    /\ nic_tx_ring' = tx_ring_
    /\ nic_tx_buffers' = tx_buffers_
    /\ UNCHANGED <<initialized_, tx_ring_, tx_buffers_, tx_head_, tx_tail_,
                   packets_sent_, reg_tx_head, reg_tx_tail, reg_tx_ctrl, tx_out,
                   tx_inflight, tx_mem, sp_pc, sp_len, rc_iters,
                   bcmRxVars, bcmLifeVars, custVars, solVars>>

(***************************************************************************)
(* BroadcomNetXtreme: the reclaim pass of send_packet one loop iteration   *)
(* at a time, the NIC writing descriptor statuses in between.              *)
(***************************************************************************)
\* the frame of the steps below
reclaimFrame == <<initialized_, tx_ring_, tx_buffers_, tx_tail_, packets_sent_,
                  reg_tx_head, reg_tx_tail, reg_tx_ctrl, tx_inflight, tx_mem,
                  nic_tx_ring, nic_tx_buffers, bcmRxVars, bcmLifeVars, custVars,
                  solVars>>

\* lines 259-262: send_packet finds next_tail == tx_head_ and calls
\* reclaim_tx_descriptors()
SendPacketFull(len) ==
    /\ initialized_
    /\ BcmRunning
    /\ tx_mem # "segv"
    /\ sp_pc = "idle"
    /\ packets_sent_ < MaxSent
    /\ TxRingFull(NextIndex(tx_tail_, TX_RING_SIZE), tx_head_)
    /\ sp_pc' = "reclaim"
    /\ sp_len' = len
    /\ rc_iters' = 0
    /\ UNCHANGED <<tx_head_, tx_out, reclaimFrame>>

\* the loop of reclaim_tx_descriptors() goes on: tx_head_ != tx_tail_ and
\* the descriptor at tx_head_ has DD
ReclaimContinues_ignoreTail(head, tail, status) == HasDD(status)
ReclaimContinues(head, tail, status) == head # tail /\ HasDD(status)

\* lines 510-516: one evaluation of the loop condition and, if the loop
\* goes on, of its body
ReclaimIteration ==
    /\ sp_pc = "reclaim"
    /\ IF ReclaimContinues(tx_head_, tx_tail_, tx_ring_[tx_head_].status)
       THEN /\ tx_head_' = NextIndex(tx_head_, TX_RING_SIZE)
            /\ rc_iters' = rc_iters + 1
            /\ UNCHANGED sp_pc
       ELSE /\ sp_pc' = "recheck"
            /\ UNCHANGED <<tx_head_, rc_iters>>
    /\ UNCHANGED <<sp_len, tx_out, reclaimFrame>>

\* lines 263-265: the second full-ring test of send_packet
SendPacketRecheck ==
    /\ sp_pc = "recheck"
    /\ IF TxRingFull(NextIndex(tx_tail_, TX_RING_SIZE), tx_head_)
       THEN /\ tx_out' = [called |-> TRUE, ret |-> FALSE]
            /\ sp_pc' = "idle"
            /\ sp_len' = 0
       ELSE /\ sp_pc' = "memcpy"
            /\ UNCHANGED <<tx_out, sp_len>>
    /\ UNCHANGED <<tx_head_, rc_iters, reclaimFrame>>

\* while the reclaim loop runs, a NIC that does not keep to the protocol
\* writes any status into any TX descriptor
HwTxStatusWrite(i, dd) ==
    /\ BitAnd(reg_tx_ctrl, CTRL_TX_ENABLE) # 0
    /\ sp_pc = "reclaim"
    /\ tx_ring_[i].status # dd
    /\ tx_ring_' = [tx_ring_ EXCEPT ![i].status = dd]
    /\ nic_tx_ring' = [nic_tx_ring EXCEPT ![i].status = dd]
    /\ UNCHANGED <<initialized_, tx_buffers_, tx_head_, tx_tail_, packets_sent_,
                   reg_tx_head, reg_tx_tail, reg_tx_ctrl, tx_out, tx_inflight,
                   tx_mem, sp_pc, sp_len, rc_iters, nic_tx_buffers,
                   bcmRxVars, bcmLifeVars, custVars, solVars>>

(***************************************************************************)
(* BroadcomNetXtreme: initialize() step by step, with the failures the     *)
(* system and the device can answer with.  initialize() has no guard of    *)
(* its own: it may be called on an instance that is initialized already    *)
(* or that was torn down.                                                  *)
(***************************************************************************)
\* what the steps of a lifecycle call leave alone: the data path's results
\* and bookkeeping
lifeDataFrame == <<packets_received_, packets_sent_, rx_out, tx_out,
                   hw_rx_count, tx_inflight, tx_mem, sp_pc, sp_len, rc_iters,
                   custVars, solVars>>

\* what the steps other than reset_device leave alone as well: the reset
\* bit and reset_device's loop variable
lifeFrame == <<lifeDataFrame, reg_dev_reset, rd_i>>

\* the order of the steps of initialize(), lines 171-214
InitStepAfter_enableEarly(pc) ==
    CASE pc = "map_bar0"        -> "reset_device"
      [] pc = "reset_device"    -> "allocate_rings"
      [] pc = "allocate_rings"  -> "enable_rx_tx"
      [] pc = "enable_rx_tx"    -> "program_rx_ring"
      [] pc = "program_rx_ring" -> "program_tx_ring"
      [] pc = "program_tx_ring" -> "set_initialized"
InitStepAfter(pc) ==
    CASE pc = "map_bar0"        -> "reset_device"
      [] pc = "reset_device"    -> "allocate_rings"
      [] pc = "allocate_rings"  -> "program_rx_ring"
      [] pc = "program_rx_ring" -> "program_tx_ring"
      [] pc = "program_tx_ring" -> "enable_rx_tx"
      [] pc = "enable_rx_tx"    -> "set_initialized"

\* initialize() returns false from one of its first three steps
InitFails(step) ==
    /\ init_fault' = step
    /\ init_out' = [called |-> TRUE, ret |-> FALSE]
    /\ life_pc' = "idle"

\* initialize() is called; map_bar0(): open() fails, or mmap() fails and
\* leaves MAP_FAILED in bar0_base_, or the window is mapped
MapBar0(answer) ==
    /\ life_pc = "idle"
    /\ tx_mem # "segv"
    /\ init_calls < MaxInitCalls
    /\ init_calls' = init_calls + 1
    /\ CASE answer = "open_failed" ->
              /\ InitFails("map_bar0")
              /\ UNCHANGED heap
         [] answer = "mmap_failed" ->
              /\ InitFails("map_bar0")
              /\ heap' = [heap EXCEPT !["bar0_base_"] =
                            [ptr |-> "MAP_FAILED", how |-> "none", addr |-> 0,
                             freed |-> 0]]
         [] answer = "mapped" ->
              /\ heap' = [heap EXCEPT !["bar0_base_"] = Allocated(@, "mmap")]
              /\ init_fault' = "none"
              /\ init_out' = [called |-> FALSE, ret |-> FALSE]
              /\ life_pc' = InitStepAfter("map_bar0")
    /\ UNCHANGED <<initialized_, rx_ring_, rx_buffers_, rx_head_, reg_rx_head,
                   reg_rx_tail, reg_rx_ctrl, tx_ring_, tx_buffers_, tx_head_,
                   tx_tail_, reg_tx_head, reg_tx_tail, reg_tx_ctrl, nic_tx_ring,
                   nic_tx_buffers, cleanup_calls, reg_rx_base, reg_rx_size,
                   reg_tx_base, reg_tx_size, ub_log, lifeFrame>>

\* reset_device() returns true when one of its polls saw the reset bit
\* clear
reset_device_returns_always(cleared) == TRUE
reset_device_returns(cleared) == cleared

\* the device completes a reset: its registers are back at their power-on
\* values, RX and TX disabled
DeviceResetDone ==
    /\ reg_rx_ctrl' = 0 /\ reg_tx_ctrl' = 0
    /\ reg_rx_base' = 0 /\ reg_rx_size' = 0
    /\ reg_tx_base' = 0 /\ reg_tx_size' = 0
    /\ reg_rx_head' = 0 /\ reg_rx_tail' = 0
    /\ reg_tx_head' = 0 /\ reg_tx_tail' = 0

\* what a step of reset_device leaves alone when the device does not
\* complete the reset in it
resetRegs == <<reg_rx_ctrl, reg_tx_ctrl, reg_rx_base, reg_rx_size, reg_tx_base,
               reg_tx_size, reg_rx_head, reg_rx_tail, reg_tx_head, reg_tx_tail>>

\* reset_device() as one step: the device either completes the reset within
\* the polls, clearing the reset bit line 425 set, or does not
ResetDevice(cleared) ==
    /\ life_pc = "reset_device"
    /\ reg_dev_reset' = ~cleared
    /\ IF cleared
       THEN DeviceResetDone
       ELSE UNCHANGED resetRegs
    /\ IF reset_device_returns(cleared)
       THEN /\ life_pc' = InitStepAfter("reset_device")
            /\ init_fault' = IF cleared THEN "none" ELSE "reset_device"
            /\ UNCHANGED init_out
       ELSE InitFails("reset_device")
    /\ UNCHANGED <<initialized_, rx_ring_, rx_buffers_, rx_head_, tx_ring_,
                   tx_buffers_, tx_head_, tx_tail_, nic_tx_ring, nic_tx_buffers,
                   heap, init_calls, cleanup_calls, ub_log, rd_i, lifeDataFrame>>

\* the number of polls of reset_device's loop, line 428
ResetPolls == 1000

\* the loop condition of line 428
ResetLoopContinues(i) == i < ResetPolls

\* what the steps of reset_device's loop leave alone
resetFrame == <<initialized_, rx_ring_, rx_buffers_, rx_head_, tx_ring_,
                tx_buffers_, tx_head_, tx_tail_, nic_tx_ring, nic_tx_buffers,
                heap, init_calls, cleanup_calls, ub_log, lifeDataFrame>>

\* line 425: reset_device sets the reset bit; the loop starts with i = 0
ResetDeviceBegin ==
    /\ life_pc = "reset_device"
    /\ reg_dev_reset' = TRUE
    /\ rd_i' = 0
    /\ life_pc' = "reset_test"
    /\ UNCHANGED <<init_out, init_fault, resetRegs, resetFrame>>

\* line 428: the loop condition; line 435: return false once it fails,
\* and initialize returns false (lines 178-180)
ResetDeviceTest ==
    /\ life_pc = "reset_test"
    /\ IF ResetLoopContinues(rd_i)
       THEN /\ life_pc' = "reset_poll"
            /\ UNCHANGED <<rd_i, init_out, init_fault>>
       ELSE /\ InitFails("reset_device")
            /\ rd_i' = 0
    /\ UNCHANGED <<reg_dev_reset, resetRegs, resetFrame>>

\* line 429: the test of the value read from REG_DEVICE_CONTROL
ResetBitClear_always(reset_bit) == TRUE
ResetBitClear(reset_bit) == ~reset_bit

\* lines 429-432: one poll of the reset bit; return true when it reads
\* clear, else usleep(1) and i++
ResetDevicePoll ==
    /\ life_pc = "reset_poll"
    /\ IF ResetBitClear(reg_dev_reset)
       THEN /\ life_pc' = InitStepAfter("reset_device")
            /\ init_fault' = "none"
            /\ rd_i' = 0
       ELSE /\ life_pc' = "reset_test"
            /\ rd_i' = rd_i + 1
            /\ UNCHANGED init_fault
    /\ UNCHANGED <<init_out, reg_dev_reset, resetRegs, resetFrame>>

\* the device completes the reset it was asked for and clears the reset
\* bit
HwResetDone ==
    /\ reg_dev_reset
    /\ reg_dev_reset' = FALSE
    /\ DeviceResetDone
    /\ UNCHANGED <<life_pc, init_out, init_fault, rd_i, resetFrame>>

\* the steps of one reset_device call
ResetDeviceThread == ResetDeviceBegin \/ ResetDeviceTest \/ ResetDevicePoll

\* the allocations of allocate_rings(), in the order it makes them
AllocOrder == <<"rx_ring_", "tx_ring_", "rx_buffers_", "tx_buffers_">>

\* the place of an allocation in that order; 5 for "none fails"
AllocIndex(r) ==
    IF r = "none" THEN 5 ELSE CHOOSE k \in 1 .. 4 : AllocOrder[k] = r

\* allocate_rings(): aligned_alloc and memset of the two rings, mmap with
\* MAP_HUGETLB (hp) or the aligned_alloc fallback for the two pools, then
\* the binding of RX descriptor i to RX buffer i; the first allocation that
\* fails (fail) makes it return false with the later pointers untouched
AllocateRings(fail, hp_rx, hp_tx) ==
    /\ life_pc = "allocate_rings"
    /\ LET done(r) == AllocIndex(r) < AllocIndex(fail)
           how(r) == CASE r \in {"rx_ring_", "tx_ring_"} -> "malloc"
                       [] r = "rx_buffers_" -> IF hp_rx THEN "mmap" ELSE "malloc"
                       [] r = "tx_buffers_" -> IF hp_tx THEN "mmap" ELSE "malloc"
       IN /\ heap' = [r \in Res |->
                        IF r = "bar0_base_" THEN heap[r]
                        ELSE IF done(r) THEN Allocated(heap[r], how(r))
                        ELSE IF r = fail THEN NullPtr
                        ELSE heap[r]]
          /\ rx_ring_' =
                IF fail = "none"
                THEN [i \in RxSlots |->
                        [buffer_addr |-> BufferAddr(i), length |-> 0, status |-> 0]]
                ELSE IF done("rx_ring_")
                THEN [i \in RxSlots |->
                        [buffer_addr |-> 0, length |-> 0, status |-> 0]]
                ELSE NullRing
          /\ tx_ring_' =
                IF done("tx_ring_")
                THEN [i \in TxSlots |->
                        [buffer_addr |-> 0, cmd_type_len |-> 0, status |-> 0]]
                ELSE IF fail = "tx_ring_" THEN NullRing ELSE tx_ring_
          /\ rx_buffers_' =
                IF done("rx_buffers_") THEN [i \in RxSlots |-> 0]
                ELSE IF fail = "rx_buffers_" THEN NullRing ELSE rx_buffers_
          /\ tx_buffers_' =
                IF done("tx_buffers_") THEN [i \in TxSlots |-> 0]
                ELSE IF fail = "tx_buffers_" THEN NullRing ELSE tx_buffers_
    /\ nic_tx_ring' = tx_ring_'
    /\ nic_tx_buffers' = tx_buffers_'
    /\ IF fail = "none"
       THEN /\ life_pc' = InitStepAfter("allocate_rings")
            /\ UNCHANGED <<init_fault, init_out>>
       ELSE InitFails("allocate_rings")
    /\ UNCHANGED <<initialized_, rx_head_, reg_rx_head, reg_rx_tail, reg_rx_ctrl,
                   tx_head_, tx_tail_, reg_tx_head, reg_tx_tail, reg_tx_ctrl,
                   init_calls, cleanup_calls, reg_rx_base, reg_rx_size,
                   reg_tx_base, reg_tx_size, ub_log, lifeFrame>>

\* lines 187-192: the RX ring registers
ProgramRxRing ==
    /\ life_pc = "program_rx_ring"
    /\ reg_rx_base' = heap["rx_ring_"].addr
    /\ reg_rx_size' = RX_RING_SIZE
    /\ reg_rx_head' = 0
    /\ reg_rx_tail' = RX_RING_SIZE - 1
    /\ life_pc' = InitStepAfter("program_rx_ring")
    /\ UNCHANGED <<initialized_, rx_ring_, rx_buffers_, rx_head_, reg_rx_ctrl,
                   tx_ring_, tx_buffers_, tx_head_, tx_tail_, reg_tx_head,
                   reg_tx_tail, reg_tx_ctrl, nic_tx_ring, nic_tx_buffers, heap,
                   init_out, init_fault, init_calls, cleanup_calls, reg_tx_base,
                   reg_tx_size, ub_log, lifeFrame>>

\* lines 194-207: the TX ring registers (then the interrupt mask and the
\* low-latency bit of the device control register, which the model does
\* not keep)
ProgramTxRing ==
    /\ life_pc = "program_tx_ring"
    /\ reg_tx_base' = heap["tx_ring_"].addr
    /\ reg_tx_size' = TX_RING_SIZE
    /\ reg_tx_head' = 0
    /\ reg_tx_tail' = 0
    /\ life_pc' = InitStepAfter("program_tx_ring")
    /\ UNCHANGED <<initialized_, rx_ring_, rx_buffers_, rx_head_, reg_rx_head,
                   reg_rx_tail, reg_rx_ctrl, tx_ring_, tx_buffers_, tx_head_,
                   tx_tail_, reg_tx_ctrl, nic_tx_ring, nic_tx_buffers, heap,
                   init_out, init_fault, init_calls, cleanup_calls, reg_rx_base,
                   reg_rx_size, ub_log, lifeFrame>>

\* enable_rx_tx(): read-modify-write of both control registers
EnableRxTx ==
    /\ life_pc = "enable_rx_tx"
    /\ reg_rx_ctrl' = BitOr(reg_rx_ctrl, CTRL_RX_ENABLE)
    /\ reg_tx_ctrl' = BitOr(reg_tx_ctrl, CTRL_TX_ENABLE)
    /\ life_pc' = InitStepAfter("enable_rx_tx")
    /\ UNCHANGED <<initialized_, rx_ring_, rx_buffers_, rx_head_, reg_rx_head,
                   reg_rx_tail, tx_ring_, tx_buffers_, tx_head_, tx_tail_,
                   reg_tx_head, reg_tx_tail, nic_tx_ring, nic_tx_buffers, heap,
                   init_out, init_fault, init_calls, cleanup_calls, reg_rx_base,
                   reg_rx_size, reg_tx_base, reg_tx_size, ub_log, lifeFrame>>

\* lines 212-213: initialized_ = true; return true
SetInitialized ==
    /\ life_pc = "set_initialized"
    /\ initialized_' = TRUE
    /\ init_out' = [called |-> TRUE, ret |-> TRUE]
    /\ life_pc' = "idle"
    /\ UNCHANGED <<rx_ring_, rx_buffers_, rx_head_, reg_rx_head, reg_rx_tail,
                   reg_rx_ctrl, tx_ring_, tx_buffers_, tx_head_, tx_tail_,
                   reg_tx_head, reg_tx_tail, reg_tx_ctrl, nic_tx_ring,
                   nic_tx_buffers, heap, init_fault, init_calls, cleanup_calls,
                   reg_rx_base, reg_rx_size, reg_tx_base, reg_tx_size, ub_log,
                   lifeFrame>>

(***************************************************************************)
(* BroadcomNetXtreme: cleanup() step by step.  cleanup() neither clears    *)
(* the pointers it released nor initialized_.                              *)
(***************************************************************************)
\* what a volatile access through bar0_base_ + offset does: an access to
\* the window; a fault through a null or MAP_FAILED pointer; through a
\* pointer to an unmapped window a fault, or an access to whatever was
\* mapped there since ("stray")
RegAccessOutcomes(ptr) ==
    CASE ptr = "valid"    -> {"ok"}
      [] ptr = "dangling" -> {"segv", "stray"}
      [] OTHER            -> {"segv"}

\* what an access to *p does, for a ring or pool pointer p: as above, the
\* released memory being read or written where it does not fault
DerefOutcomes(ptr) ==
    CASE ptr = "valid"    -> {"ok"}
      [] ptr = "dangling" -> {"segv", "stale"}
      [] OTHER            -> {"segv"}

\* if (initialized_) { write_reg(REG_RX_CONTROL, 0); ... }
cleanup_disables_never(init) == FALSE
cleanup_disables(init) == init

\* what the steps of cleanup() leave alone
cleanupFrame == <<initialized_, rx_ring_, rx_buffers_, rx_head_, reg_rx_head,
                  reg_rx_tail, tx_ring_, tx_buffers_, tx_head_, tx_tail_,
                  reg_tx_head, reg_tx_tail, nic_tx_ring, nic_tx_buffers,
                  init_out, init_fault, init_calls, reg_rx_base, reg_rx_size,
                  reg_tx_base, reg_tx_size, lifeFrame>>

\* cleanup() is entered; lines 548-552: RX and TX are disabled when
\* initialized_ is set
CleanupDisable ==
    /\ life_pc = "idle"
    /\ tx_mem # "segv"
    /\ cleanup_calls < MaxCleanups
    /\ cleanup_calls' = cleanup_calls + 1
    /\ IF cleanup_disables(initialized_)
       THEN \E o \in RegAccessOutcomes(heap["bar0_base_"].ptr) :
               /\ life_pc' = IF o = "segv" THEN "crashed" ELSE "unmap_bar0"
               /\ IF o = "ok"
                  THEN reg_rx_ctrl' = 0 /\ reg_tx_ctrl' = 0
                  ELSE UNCHANGED <<reg_rx_ctrl, reg_tx_ctrl>>
               /\ ub_log' = IF o = "ok" THEN ub_log
                            ELSE ub_log \cup {"register access through an invalid window"}
       ELSE /\ life_pc' = "unmap_bar0"
            /\ UNCHANGED <<reg_rx_ctrl, reg_tx_ctrl, ub_log>>
    /\ UNCHANGED <<heap, cleanupFrame>>

\* one release of cleanup(): free(p) or munmap(p, size) when the pointer
\* is neither null nor MAP_FAILED, whether or not it was released before.
\* free() of a released block aborts or corrupts the allocator.
CleanupRelease(r, mechanism, next_pc) ==
    LET p == heap[r]
    IN IF p.ptr \in {"null", "MAP_FAILED"}
       THEN /\ life_pc' = next_pc
            /\ UNCHANGED <<heap, ub_log>>
       ELSE /\ heap' = [heap EXCEPT ![r].ptr = "dangling",
                                    ![r].freed = p.freed + 1]
            /\ ub_log' = ub_log
                 \cup (IF p.ptr = "dangling" /\ mechanism = "free"
                       THEN {"double free"} ELSE {})
                 \cup (IF p.ptr = "dangling" /\ mechanism = "munmap"
                       THEN {"munmap of a released range"} ELSE {})
                 \cup (IF p.ptr = "valid" /\ mechanism = "munmap" /\ p.how = "malloc"
                       THEN {"munmap of aligned_alloc memory"} ELSE {})
            /\ \E o \in (IF p.ptr = "dangling" /\ mechanism = "free"
                         THEN {"abort", "corrupt"} ELSE {"ok"}) :
                  life_pc' = IF o = "abort" THEN "crashed" ELSE next_pc

\* lines 554-556
CleanupUnmapBar0 ==
    /\ life_pc = "unmap_bar0"
    /\ CleanupRelease("bar0_base_", "munmap", "free_rx_ring")
    /\ UNCHANGED <<reg_rx_ctrl, reg_tx_ctrl, cleanup_calls, cleanupFrame>>

\* line 558
CleanupFreeRxRing ==
    /\ life_pc = "free_rx_ring"
    /\ CleanupRelease("rx_ring_", "free", "free_tx_ring")
    /\ UNCHANGED <<reg_rx_ctrl, reg_tx_ctrl, cleanup_calls, cleanupFrame>>

\* line 559
CleanupFreeTxRing ==
    /\ life_pc = "free_tx_ring"
    /\ CleanupRelease("tx_ring_", "free", "unmap_rx_buffers")
    /\ UNCHANGED <<reg_rx_ctrl, reg_tx_ctrl, cleanup_calls, cleanupFrame>>

\* lines 560-562
CleanupUnmapRxBuffers ==
    /\ life_pc = "unmap_rx_buffers"
    /\ CleanupRelease("rx_buffers_", "munmap", "unmap_tx_buffers")
    /\ UNCHANGED <<reg_rx_ctrl, reg_tx_ctrl, cleanup_calls, cleanupFrame>>

\* lines 563-565, and the return
CleanupUnmapTxBuffers ==
    /\ life_pc = "unmap_tx_buffers"
    /\ CleanupRelease("tx_buffers_", "munmap", "idle")
    /\ UNCHANGED <<reg_rx_ctrl, reg_tx_ctrl, cleanup_calls, cleanupFrame>>

(***************************************************************************)
(* BroadcomNetXtreme: receive_packet and send_packet on an instance that   *)
(* is not Running.  Neither method tests initialized_ or a pointer: each   *)
(* runs its statements on whatever the pointers hold.                      *)
(***************************************************************************)
\* not Running: never initialized, or initialize() failed, or torn down
BcmNotRunning ==
    /\ life_pc = "idle"
    /\ ~(initialized_ /\ \A r \in Res : heap[r].ptr = "valid")

\* receive_packet(&packet_out, &len_out), lines 222-248
ReceivePacketNotRunning ==
    /\ BcmNotRunning
    /\ tx_mem # "segv"
    /\ packets_received_ < MaxNotRunningCalls
    /\ LET p == heap["rx_ring_"].ptr
       IN \E o \in DerefOutcomes(p), dd \in BOOLEAN,
             w \in RegAccessOutcomes(heap["bar0_base_"].ptr) :
             /\ p = "valid" => dd = HasDD(rx_ring_[rx_head_].status)
             /\ IF o = "segv"
                THEN /\ life_pc' = "crashed"
                     /\ ub_log' = ub_log \cup {"access through an invalid rx_ring_"}
                     /\ UNCHANGED <<rx_out, rx_ring_, rx_head_, reg_rx_tail,
                                    packets_received_>>
                ELSE /\ ub_log' = ub_log
                          \cup (IF o = "stale"
                                THEN {"access through an invalid rx_ring_"} ELSE {})
                          \cup (IF dd /\ w # "ok"
                                THEN {"tail register written through an invalid window"}
                                ELSE {})
                     /\ IF ~dd
                        THEN /\ rx_out' = [rx_out EXCEPT !.called = TRUE, !.ret = FALSE]
                             /\ UNCHANGED <<rx_ring_, rx_head_, reg_rx_tail,
                                            packets_received_, life_pc>>
                        ELSE /\ rx_ring_' = [rx_ring_ EXCEPT ![rx_head_].status =
                                               RxStatusCleared(rx_ring_[rx_head_].status)]
                             /\ rx_head_' = NextIndex(rx_head_, RX_RING_SIZE)
                             /\ reg_rx_tail' = IF w = "ok"
                                               THEN PrevIndex(rx_head_', RX_RING_SIZE)
                                               ELSE reg_rx_tail
                             /\ IF w = "segv"
                                THEN /\ life_pc' = "crashed"
                                     /\ rx_out' = [rx_out EXCEPT
                                          !.packet_out = rx_head_ * MAX_PACKET_SIZE,
                                          !.len_out = rx_ring_[rx_head_].length]
                                     /\ UNCHANGED packets_received_
                                ELSE /\ rx_out' = [called |-> TRUE, ret |-> TRUE,
                                          packet_out |-> rx_head_ * MAX_PACKET_SIZE,
                                          len_out |-> rx_ring_[rx_head_].length,
                                          frame |-> 0]
                                     /\ packets_received_' = packets_received_ + 1
                                     /\ UNCHANGED life_pc
    /\ UNCHANGED <<initialized_, rx_buffers_, reg_rx_head, reg_rx_ctrl, hw_rx_count,
                   bcmTxVars, heap, init_out, init_fault, init_calls,
                   cleanup_calls, reg_rx_base, reg_rx_size, reg_tx_base,
                   reg_tx_size, reg_dev_reset, rd_i, custVars, solVars>>

\* send_packet(data, length), lines 256-290
SendPacketNotRunning(len) ==
    /\ BcmNotRunning
    /\ tx_mem # "segv"
    /\ sp_pc = "idle"
    /\ packets_sent_ < MaxNotRunningCalls
    /\ LET next_tail == NextIndex(tx_tail_, TX_RING_SIZE)
           full == TxRingFull(next_tail, tx_head_)
           pr == heap["tx_ring_"].ptr
           pb == heap["tx_buffers_"].ptr
       IN \E o_reclaim \in (IF full THEN DerefOutcomes(pr) ELSE {"ok"}),
             o_copy \in DerefOutcomes(pb),
             o_desc \in DerefOutcomes(pr),
             w \in RegAccessOutcomes(heap["bar0_base_"].ptr) :
          LET head1 == IF full /\ o_reclaim # "segv"
                       THEN reclaim_tx_descriptors(tx_head_, tx_tail_, tx_ring_)
                       ELSE tx_head_
              rejected == full /\ o_reclaim # "segv" /\ TxRingFull(next_tail, head1)
              copied == o_reclaim # "segv" /\ ~rejected /\ o_copy # "segv"
              described == copied /\ o_desc # "segv"
              returned == described /\ w # "segv"
          IN /\ tx_head_' = head1
             /\ life_pc' = IF rejected \/ returned THEN life_pc ELSE "crashed"
             /\ tx_out' = IF rejected THEN [called |-> TRUE, ret |-> FALSE]
                          ELSE IF returned THEN [called |-> TRUE, ret |-> TRUE]
                          ELSE tx_out
             /\ tx_buffers_' = IF copied
                               THEN TxCopy(tx_buffers_, tx_tail_, len, packets_sent_ + 1)
                               ELSE tx_buffers_
             /\ tx_mem' = IF copied /\ TxCopyOverruns(tx_tail_, len)
                          THEN "clobbered" ELSE tx_mem
             /\ tx_ring_' = IF described
                            THEN [tx_ring_ EXCEPT ![tx_tail_] =
                                    [buffer_addr |-> BufferAddr(tx_tail_),
                                     cmd_type_len |->
                                         BitOr(len, BitOr(DESC_CMD_EOP, DESC_CMD_IFCS)),
                                     status |-> 0]]
                            ELSE tx_ring_
             /\ tx_tail_' = IF described THEN next_tail ELSE tx_tail_
             /\ reg_tx_tail' = IF described /\ w = "ok" THEN next_tail ELSE reg_tx_tail
             /\ tx_inflight' = IF described /\ w = "ok"
                               THEN [tx_inflight EXCEPT ![tx_tail_] = TRUE]
                               ELSE tx_inflight
             /\ packets_sent_' = IF returned THEN packets_sent_ + 1 ELSE packets_sent_
             /\ ub_log' = ub_log
                  \cup (IF ~rejected /\ (o_reclaim # "ok" \/ o_copy # "ok"
                                          \/ (copied /\ o_desc # "ok"))
                        THEN {"access through an invalid tx_ring_ or tx_buffers_"}
                        ELSE {})
                  \cup (IF rejected /\ o_reclaim # "ok"
                        THEN {"access through an invalid tx_ring_ or tx_buffers_"}
                        ELSE {})
                  \cup (IF described /\ w # "ok"
                        THEN {"tail register written through an invalid window"}
                        ELSE {})
    /\ nic_tx_ring' = tx_ring_'
    /\ nic_tx_buffers' = tx_buffers_'
    /\ UNCHANGED <<initialized_, reg_tx_head, reg_tx_ctrl, sp_pc, sp_len, rc_iters, bcmRxVars,
                   heap, init_out, init_fault, init_calls, cleanup_calls,
                   reg_rx_base, reg_rx_size, reg_tx_base, reg_tx_size,
                   reg_dev_reset, rd_i, custVars, solVars>>

(***************************************************************************)
(* CustomNICDriver: construction and initialize().                         *)
(***************************************************************************)
CustInit ==
    /\ c_initialized_ = FALSE
    /\ c_rx_ring_ = NullRing
    /\ c_tx_ring_ = NullRing
    /\ c_rx_buffers_ = NullRing
    /\ c_tx_buffers_ = NullRing
    /\ c_rx_head_ = 0
    /\ c_tx_tail_ = 0
    /\ c_reg_rx_head = 0
    /\ c_reg_rx_tail = 0
    /\ c_reg_tx_head = 0
    /\ c_reg_tx_tail = 0
    /\ c_rx_out = [called |-> FALSE, ret |-> FALSE, packet_data |-> -1,
                   packet_len |-> 0, frame |-> 0]
    /\ c_tx_out = [called |-> FALSE, ret |-> FALSE]
    /\ c_hw_rx_count = 0
    /\ c_rx_returned = 0
    /\ c_tx_inflight = [i \in C_TxSlots |-> FALSE]
    /\ c_tx_count = 0
    /\ c_st_pc = "idle"
    /\ c_st_len = 0
    /\ c_nic_tx_ring = NullRing
    /\ c_nic_tx_buffers = NullRing
    /\ c_init_out = [calls |-> 0, ret |-> FALSE]
    /\ c_alloc = [bar0_base_ |-> "null", rx_ring_ |-> "null", tx_ring_ |-> "null",
                  rx_buffers_ |-> [i \in C_RxSlots |-> "unset"],
                  tx_buffers_ |-> [i \in C_TxSlots |-> "unset"]]

\* virt_to_phys(buffer i): every buffer is a mapping of its own, so the
\* buffers have distinct page-aligned addresses
virt_to_phys(i) == (i + 1) * PAGE_SIZE

\* the buffer that lies at a physical address
C_BufferOfAddr(addr) == (addr \div PAGE_SIZE) - 1

\* initialize(pci_device), every allocation succeeding: each RX descriptor
\* is bound to its buffer with a zero status word, program_rx_ring() and
\* program_tx_ring() write the ring registers, initialized_ = true.
CustInitialize ==
    /\ c_initialized_ = FALSE
    /\ c_rx_ring_' = [i \in C_RxSlots |->
                        [buffer_addr |-> virt_to_phys(i), pkt_len |-> 0,
                         status_flags |-> 0]]
    /\ c_tx_ring_' = [i \in C_TxSlots |->
                        [buffer_addr |-> 0, cmd_type_len |-> 0, olinfo_status |-> 0]]
    /\ c_rx_buffers_' = [i \in C_RxSlots |-> 0]
    /\ c_tx_buffers_' = [i \in C_TxSlots |-> 0]
    /\ c_nic_tx_ring' = c_tx_ring_'
    /\ c_nic_tx_buffers' = c_tx_buffers_'
    /\ c_reg_rx_head' = 0
    /\ c_reg_rx_tail' = C_RX_RING_SIZE - 1
    /\ c_reg_tx_head' = 0
    /\ c_reg_tx_tail' = 0
    /\ c_initialized_' = TRUE
    /\ c_init_out' = [calls |-> c_init_out.calls + 1, ret |-> TRUE]
    /\ c_alloc' = [bar0_base_ |-> "valid", rx_ring_ |-> "valid", tx_ring_ |-> "valid",
                   rx_buffers_ |-> [i \in C_RxSlots |-> "valid"],
                   tx_buffers_ |-> [i \in C_TxSlots |-> "valid"]]
    /\ UNCHANGED <<c_rx_head_, c_tx_tail_, c_rx_out, c_tx_out, c_hw_rx_count,
                   c_rx_returned, c_tx_inflight, c_tx_count, c_st_pc, c_st_len,
                   bcmVars, solVars>>

\* a descriptor ring fresh from allocate_dma_memory (anonymous pages read
\* as zero), or nullptr when the allocation failed
C_FreshRxRing(ok) ==
    IF ok THEN [i \in C_RxSlots |->
                  [buffer_addr |-> 0, pkt_len |-> 0, status_flags |-> 0]]
          ELSE NullRing
C_FreshTxRing(ok) ==
    IF ok THEN [i \in C_TxSlots |->
                  [buffer_addr |-> 0, cmd_type_len |-> 0, olinfo_status |-> 0]]
          ELSE NullRing

\* initialize(pci_device) with every outcome of its system calls: open
\* succeeds or not, the mmap of BAR0 succeeds or not, each ring is allocated
\* or not, rx_fail is the first RX buffer whose allocation fails
\* (C_RX_RING_SIZE when none does) and tx_null the TX buffers whose
\* allocation fails.  The function has no guard against a second call.
C_Initialize(open_ok, bar0_ok, rx_ring_ok, tx_ring_ok, rx_fail, tx_null) ==
    /\ c_init_out.calls < MaxInitCalls
    /\ c_st_pc = "idle"
    /\ LET mapped == open_ok /\ bar0_ok
           rings  == mapped /\ rx_ring_ok /\ tx_ring_ok
           rxbufs == rings /\ rx_fail = C_RX_RING_SIZE
       IN /\ c_init_out' = [calls |-> c_init_out.calls + 1, ret |-> rxbufs]
          /\ c_initialized_' = (c_initialized_ \/ rxbufs)
          /\ c_alloc' =
               [bar0_base_ |-> IF ~open_ok THEN c_alloc.bar0_base_
                               ELSE IF bar0_ok THEN "valid" ELSE "MAP_FAILED",
                rx_ring_ |-> IF ~mapped THEN c_alloc.rx_ring_
                             ELSE IF rx_ring_ok THEN "valid" ELSE "null",
                tx_ring_ |-> IF ~mapped THEN c_alloc.tx_ring_
                             ELSE IF tx_ring_ok THEN "valid" ELSE "null",
                rx_buffers_ |-> [i \in C_RxSlots |->
                                   IF ~rings \/ i > rx_fail THEN c_alloc.rx_buffers_[i]
                                   ELSE IF i = rx_fail THEN "null" ELSE "valid"],
                tx_buffers_ |-> [i \in C_TxSlots |->
                                   IF ~rxbufs THEN c_alloc.tx_buffers_[i]
                                   ELSE IF i \in tx_null THEN "null" ELSE "valid"]]
          /\ c_rx_ring_' =
               IF ~mapped THEN c_rx_ring_
               ELSE IF ~rings THEN C_FreshRxRing(rx_ring_ok)
               ELSE [i \in C_RxSlots |->
                       IF i < rx_fail
                       THEN [buffer_addr |-> virt_to_phys(i), pkt_len |-> 0,
                             status_flags |-> 0]
                       ELSE C_FreshRxRing(TRUE)[i]]
          /\ c_tx_ring_' = IF ~mapped THEN c_tx_ring_ ELSE C_FreshTxRing(tx_ring_ok)
          /\ c_nic_tx_ring' = IF ~mapped THEN c_nic_tx_ring ELSE C_FreshTxRing(tx_ring_ok)
          /\ c_rx_buffers_' = IF rings THEN [i \in C_RxSlots |-> 0] ELSE c_rx_buffers_
          /\ c_tx_buffers_' = IF rxbufs THEN [i \in C_TxSlots |-> 0] ELSE c_tx_buffers_
          /\ c_nic_tx_buffers' = IF rxbufs THEN [i \in C_TxSlots |-> 0]
                                 ELSE c_nic_tx_buffers
          /\ c_reg_rx_head' = IF rxbufs THEN 0 ELSE c_reg_rx_head
          /\ c_reg_rx_tail' = IF rxbufs THEN C_RX_RING_SIZE - 1 ELSE c_reg_rx_tail
          /\ c_reg_tx_head' = IF rxbufs THEN 0 ELSE c_reg_tx_head
          /\ c_reg_tx_tail' = IF rxbufs THEN 0 ELSE c_reg_tx_tail
    /\ UNCHANGED <<c_rx_head_, c_tx_tail_, c_rx_out, c_tx_out, c_hw_rx_count,
                   c_rx_returned, c_tx_inflight, c_tx_count, c_st_pc, c_st_len,
                   bcmVars, solVars>>

(***************************************************************************)
(* CustomNICDriver: RX path.                                               *)
(***************************************************************************)
\* The NIC receives a frame into the descriptor at RX_HEAD, one of those
\* before RX_TAIL, sets pkt_len and the DD bit and advances RX_HEAD.
C_HwRxWrite(len) ==
    /\ c_initialized_
    /\ c_reg_rx_head # c_reg_rx_tail
    /\ c_hw_rx_count < MaxFrames
    /\ LET slot == c_reg_rx_head
           buf  == C_BufferOfAddr(c_rx_ring_[slot].buffer_addr)
       IN /\ c_rx_buffers_' = [c_rx_buffers_ EXCEPT ![buf] = c_hw_rx_count + 1]
          /\ c_rx_ring_' = [c_rx_ring_ EXCEPT ![slot].pkt_len = len,
                                              ![slot].status_flags = RX_DD_BIT]
          /\ c_reg_rx_head' = (slot + 1) % C_RX_RING_SIZE
    /\ c_hw_rx_count' = c_hw_rx_count + 1
    /\ UNCHANGED <<c_initialized_, c_rx_head_, c_reg_rx_tail, c_rx_out,
                   c_rx_returned, custTxVars, custInitVars, bcmVars, solVars>>

\* the emptiness test of poll_rx and busy_wait_loop: hw_head == rx_head_
C_RxNoNewPackets(hw_head, head) == hw_head = head

\* what poll_rx and one iteration of busy_wait_loop do to the ring; found
\* says whether a packet was taken
C_RxTake(found) ==
    LET hw_head == c_reg_rx_head
        desc == c_rx_ring_[c_rx_head_]
    IN IF C_RxNoNewPackets(hw_head, c_rx_head_)
          \/ BitAnd(desc.status_flags, RX_DD_BIT) = 0
       THEN /\ found = FALSE
            /\ UNCHANGED <<c_rx_ring_, c_rx_head_, c_reg_rx_tail, c_rx_returned>>
       ELSE /\ found = TRUE
            /\ c_rx_ring_' = [c_rx_ring_ EXCEPT ![c_rx_head_].status_flags = 0]
            /\ c_rx_head_' = NextIndex(c_rx_head_, C_RX_RING_SIZE)
            /\ c_reg_rx_tail' = c_rx_head_'
            /\ c_rx_returned' = c_rx_returned + 1

\* poll_rx(&packet_data, &packet_len)
PollRx ==
    /\ c_initialized_
    /\ \E found \in BOOLEAN :
          /\ C_RxTake(found)
          /\ c_rx_out' = IF found
                         THEN [called |-> TRUE, ret |-> TRUE,
                               packet_data |-> c_rx_head_,
                               packet_len |-> c_rx_ring_[c_rx_head_].pkt_len,
                               frame |-> c_rx_buffers_[c_rx_head_]]
                         ELSE [c_rx_out EXCEPT !.called = TRUE, !.ret = FALSE]
    /\ UNCHANGED <<c_initialized_, c_rx_buffers_, c_reg_rx_head, c_hw_rx_count,
                   custTxVars, custInitVars, bcmVars, solVars>>

\* one iteration of busy_wait_loop(callback): the same ring handling; the
\* callback gets the buffer and the length when a packet was taken
BusyWaitIteration ==
    /\ c_initialized_
    /\ \E found \in BOOLEAN :
          /\ C_RxTake(found)
          /\ c_rx_out' = IF found
                         THEN [called |-> TRUE, ret |-> TRUE,
                               packet_data |-> c_rx_head_,
                               packet_len |-> c_rx_ring_[c_rx_head_].pkt_len,
                               frame |-> c_rx_buffers_[c_rx_head_]]
                         ELSE c_rx_out
    /\ UNCHANGED <<c_initialized_, c_rx_buffers_, c_reg_rx_head, c_hw_rx_count,
                   custTxVars, custInitVars, bcmVars, solVars>>

(***************************************************************************)
(* CustomNICDriver: TX path.                                               *)
(***************************************************************************)
\* The NIC transmits the descriptor at TX_HEAD, one of those before
\* TX_TAIL, writes DD into its status and advances TX_HEAD.
C_HwTxComplete ==
    /\ c_initialized_
    /\ c_reg_tx_head # c_reg_tx_tail
    /\ LET slot == c_reg_tx_head
       IN /\ c_tx_ring_' = [c_tx_ring_ EXCEPT ![slot].olinfo_status = TX_DD_BIT]
          /\ c_nic_tx_ring' = [c_nic_tx_ring EXCEPT ![slot].olinfo_status = TX_DD_BIT]
          /\ c_reg_tx_head' = (slot + 1) % C_TX_RING_SIZE
          /\ c_tx_inflight' = [c_tx_inflight EXCEPT ![slot] = FALSE]
    /\ UNCHANGED <<c_initialized_, c_tx_buffers_, c_tx_tail_, c_reg_tx_tail,
                   c_tx_out, c_tx_count, c_st_pc, c_st_len, c_nic_tx_buffers,
                   custRxVars, custInitVars, bcmVars, solVars>>

\* the length test of submit_tx: packet_len > PACKET_BUFFER_SIZE
C_TooLong_orEqual(len) == len >= PACKET_BUFFER_SIZE
C_TooLong(len) == len > PACKET_BUFFER_SIZE

\* submit_tx(packet_data, packet_len)
SubmitTx(len) ==
    /\ c_initialized_
    /\ c_st_pc = "idle"
    /\ c_tx_count < MaxSent
    /\ IF C_TooLong(len)
       THEN /\ c_tx_out' = [called |-> TRUE, ret |-> FALSE]
            /\ UNCHANGED <<c_tx_ring_, c_tx_buffers_, c_tx_tail_, c_reg_tx_tail,
                           c_tx_inflight, c_tx_count, c_nic_tx_ring,
                           c_nic_tx_buffers>>
       ELSE LET new_tail == NextIndex(c_tx_tail_, C_TX_RING_SIZE)
            IN /\ c_tx_buffers_' = [c_tx_buffers_ EXCEPT ![c_tx_tail_] = c_tx_count + 1]
               /\ c_tx_ring_' = [c_tx_ring_ EXCEPT ![c_tx_tail_] =
                      [buffer_addr |-> virt_to_phys(c_tx_tail_),
                       cmd_type_len |-> BitOr(len * 65536, 1),
                       olinfo_status |-> 0]]
               /\ c_nic_tx_ring' = c_tx_ring_'
               /\ c_nic_tx_buffers' = c_tx_buffers_'
               /\ c_reg_tx_tail' = new_tail
               /\ c_tx_tail_' = new_tail
               /\ c_tx_inflight' = [c_tx_inflight EXCEPT ![c_tx_tail_] = TRUE]
               /\ c_tx_count' = c_tx_count + 1
               /\ c_tx_out' = [called |-> TRUE, ret |-> TRUE]
    /\ UNCHANGED <<c_initialized_, c_reg_tx_head, c_st_pc, c_st_len,
                   custRxVars, custInitVars, bcmVars, solVars>>

(***************************************************************************)
(* CustomNICDriver: submit_tx statement by statement.  The stores to the   *)
(* buffer and the descriptor reach the memory DMA reads see at a later     *)
(* moment of their own, or at a fence at the latest; the volatile store of *)
(* write_reg32 reaches the NIC when it is executed.                        *)
(***************************************************************************)
\* __asm__ __volatile__("mfence" ::: "memory"): every store issued before
\* it has reached memory
mfence(cpu_view, nic_view) == cpu_view

\* poll_tx_completion(): read_reg32(TX_HEAD) != tx_tail_.  The call reads
\* the head register and the tail cursor and writes nothing.
poll_tx_completion(hw_head, tail) == hw_head # tail

\* lines 407-409: the length test
SubmitTxBegin(len) ==
    /\ c_initialized_
    /\ c_st_pc = "idle"
    /\ c_tx_count < MaxSent
    /\ IF C_TooLong(len)
       THEN /\ c_tx_out' = [called |-> TRUE, ret |-> FALSE]
            /\ UNCHANGED <<c_st_pc, c_st_len>>
       ELSE /\ c_st_pc' = "memcpy"
            /\ c_st_len' = len
            /\ UNCHANGED c_tx_out
    /\ UNCHANGED <<c_initialized_, c_tx_ring_, c_tx_buffers_, c_tx_tail_,
                   c_reg_tx_head, c_reg_tx_tail, c_tx_inflight, c_tx_count,
                   c_nic_tx_ring, c_nic_tx_buffers, custRxVars, custInitVars, bcmVars, solVars>>

\* lines 411-412: std::memcpy(tx_buffers_[tx_tail_], packet_data, packet_len)
SubmitTxCopy ==
    /\ c_st_pc = "memcpy"
    /\ c_tx_buffers_' = [c_tx_buffers_ EXCEPT ![c_tx_tail_] = c_tx_count + 1]
    /\ c_st_pc' = "descriptor"
    /\ UNCHANGED <<c_initialized_, c_tx_ring_, c_tx_tail_, c_reg_tx_head,
                   c_reg_tx_tail, c_tx_out, c_tx_inflight, c_tx_count, c_st_len,
                   c_nic_tx_ring, c_nic_tx_buffers, custRxVars, custInitVars, bcmVars, solVars>>

\* lines 414-418: the descriptor fields
SubmitTxDescriptor ==
    /\ c_st_pc = "descriptor"
    /\ c_tx_ring_' = [c_tx_ring_ EXCEPT ![c_tx_tail_] =
                        [buffer_addr |-> virt_to_phys(c_tx_tail_),
                         cmd_type_len |-> BitOr(c_st_len * 65536, 1),
                         olinfo_status |-> 0]]
    /\ c_st_pc' = "write_reg32"
    /\ UNCHANGED <<c_initialized_, c_tx_buffers_, c_tx_tail_, c_reg_tx_head,
                   c_reg_tx_tail, c_tx_out, c_tx_inflight, c_tx_count, c_st_len,
                   c_nic_tx_ring, c_nic_tx_buffers, custRxVars, custInitVars, bcmVars, solVars>>

\* lines 420-424 and 485: write_reg32(registers::TX_TAIL, new_tail), the
\* store of line 485
SubmitTxTailStore ==
    /\ c_st_pc = "write_reg32"
    /\ c_reg_tx_tail' = NextIndex(c_tx_tail_, C_TX_RING_SIZE)
    /\ c_tx_inflight' = [c_tx_inflight EXCEPT ![c_tx_tail_] = TRUE]
    /\ c_st_pc' = "mfence"
    /\ UNCHANGED <<c_initialized_, c_tx_ring_, c_tx_buffers_, c_tx_tail_,
                   c_reg_tx_head, c_tx_out, c_tx_count, c_st_len,
                   c_nic_tx_ring, c_nic_tx_buffers, custRxVars, custInitVars, bcmVars, solVars>>

\* lines 487-488: the mfence that ends write_reg32
SubmitTxFence ==
    /\ c_st_pc = "mfence"
    /\ c_nic_tx_ring' = mfence(c_tx_ring_, c_nic_tx_ring)
    /\ c_nic_tx_buffers' = mfence(c_tx_buffers_, c_nic_tx_buffers)
    /\ c_st_pc' = "return"
    /\ UNCHANGED <<c_initialized_, c_tx_ring_, c_tx_buffers_, c_tx_tail_,
                   c_reg_tx_head, c_reg_tx_tail, c_tx_out, c_tx_inflight,
                   c_tx_count, c_st_len, custRxVars, custInitVars, bcmVars, solVars>>

\* lines 426-427: tx_tail_ = new_tail; return true
SubmitTxReturn ==
    /\ c_st_pc = "return"
    /\ c_tx_tail_' = NextIndex(c_tx_tail_, C_TX_RING_SIZE)
    /\ c_tx_count' = c_tx_count + 1
    /\ c_tx_out' = [called |-> TRUE, ret |-> TRUE]
    /\ c_st_pc' = "idle"
    /\ c_st_len' = 0
    /\ UNCHANGED <<c_initialized_, c_tx_ring_, c_tx_buffers_, c_reg_tx_head,
                   c_reg_tx_tail, c_tx_inflight, c_nic_tx_ring, c_nic_tx_buffers,
                   custRxVars, custInitVars, bcmVars, solVars>>

\* stores issued so far reach memory without a fence
C_TxStoresDrain ==
    /\ c_initialized_
    /\ <<c_nic_tx_ring, c_nic_tx_buffers>> # <<c_tx_ring_, c_tx_buffers_>>
    /\ c_nic_tx_ring' = c_tx_ring_
    /\ c_nic_tx_buffers' = c_tx_buffers_
    /\ UNCHANGED <<c_initialized_, c_tx_ring_, c_tx_buffers_, c_tx_tail_,
                   c_reg_tx_head, c_reg_tx_tail, c_tx_out, c_tx_inflight,
                   c_tx_count, c_st_pc, c_st_len, custRxVars, custInitVars, bcmVars, solVars>>

(***************************************************************************)
(* SolarflareEFVI (simulation build of the ef_vi wrapper).                 *)
(***************************************************************************)
EFVI_RX_RING_SIZE == 512
EFVI_TX_RING_SIZE == 512
EFVI_PKT_BUF_SIZE == 2048
EFVI_NUM_BUFS == 1024

SolBufIds == 0 .. EFVI_NUM_BUFS - 1
\* lengths a caller hands to submit_tx: empty, a minimum frame, a full
\* buffer, one byte more than a buffer
SolTxLens == {0, 64, EFVI_PKT_BUF_SIZE, EFVI_PKT_BUF_SIZE + 1}

\* the constructor sets the three scalar members; handle_ is left
\* default-initialized, its pointers hold indeterminate values
SolInit ==
    /\ s_initialized_ = FALSE
    /\ s_rx_posted_ = 0
    /\ s_tx_posted_ = 0
    /\ s_pkt_bufs = [i \in SolBufIds |-> "indeterminate"]
    /\ s_pkt = [len |-> 0, written |-> FALSE]
    /\ s_rx_out = [called |-> FALSE, ret |-> FALSE]
    /\ s_tx_out = [called |-> FALSE, ret |-> FALSE]
    /\ s_mem = "ok"
    /\ s_init_calls = 0

\* post_rx_buffer(buf_id): counts the posted buffer (a uint32_t; the
\* counter stays below MaxInitCalls * EFVI_RX_RING_SIZE + 1, far from its
\* wrap)
post_rx_buffer(posted) == posted + 1

RECURSIVE PostRxBuffers(_, _)
\* n calls of post_rx_buffer in a row (the run is split in two halves, and
\* the counter is evaluated on entry, to keep the evaluation shallow)
PostRxBuffers(posted, n) ==
    IF n = 0 \/ posted \notin Nat THEN posted
    ELSE IF n = 1 THEN post_rx_buffer(posted)
    ELSE PostRxBuffers(PostRxBuffers(posted, n \div 2), n - (n \div 2))

\* initialize(interface)
S_Initialize ==
    /\ s_mem # "segv"
    /\ s_init_calls < MaxInitCalls
    /\ s_init_calls' = s_init_calls + 1
    /\ s_initialized_' = TRUE
    /\ s_pkt_bufs' = [i \in SolBufIds |-> "nullptr"]
    /\ s_rx_posted_' = PostRxBuffers(s_rx_posted_, EFVI_RX_RING_SIZE)
    /\ UNCHANGED <<s_tx_posted_, s_pkt, s_rx_out, s_tx_out, s_mem, bcmVars, custVars>>

\* the test `!initialized_` that opens poll_rx and submit_tx
NotInitialized_never(init) == FALSE
NotInitialized(init) == ~init

\* poll_rx(pkt)
S_PollRx ==
    /\ s_mem # "segv"
    /\ IF NotInitialized(s_initialized_)
       THEN /\ s_rx_out' = [called |-> TRUE, ret |-> FALSE]
            /\ UNCHANGED <<s_pkt, s_rx_posted_>>
       ELSE IF s_rx_posted_ > 0
       THEN /\ s_pkt' = [len |-> 64, written |-> TRUE]
            /\ s_rx_posted_' = post_rx_buffer(s_rx_posted_ - 1)
            /\ s_rx_out' = [called |-> TRUE, ret |-> TRUE]
       ELSE /\ s_rx_out' = [called |-> TRUE, ret |-> FALSE]
            /\ UNCHANGED <<s_pkt, s_rx_posted_>>
    /\ UNCHANGED <<s_initialized_, s_tx_posted_, s_pkt_bufs, s_tx_out, s_mem,
                   s_init_calls, bcmVars, custVars>>

\* what memcpy(tx_buf, data, len) does for the pointer value tx_buf: no
\* buffer is ever allocated, so a copy of at least one byte goes through a
\* null or indeterminate pointer
SolCopyOutcomes(ptr, len) ==
    IF len = 0 THEN {"ok"} ELSE {"segv", "stray"}

\* submit_tx(data, len)
S_SubmitTx(len) ==
    /\ s_mem # "segv"
    /\ IF NotInitialized(s_initialized_) \/ len > EFVI_PKT_BUF_SIZE
          \/ ~(s_tx_posted_ < EFVI_TX_RING_SIZE)
       THEN /\ s_tx_out' = [called |-> TRUE, ret |-> FALSE]
            /\ UNCHANGED <<s_tx_posted_, s_mem>>
       ELSE \E o \in SolCopyOutcomes(s_pkt_bufs[s_tx_posted_], len) :
               IF o = "segv"
               THEN /\ s_mem' = "segv"
                    /\ UNCHANGED <<s_tx_posted_, s_tx_out>>
               ELSE /\ s_mem' = IF o = "ok" THEN s_mem ELSE o
                    /\ s_tx_posted_' = s_tx_posted_ + 1
                    /\ s_tx_out' = [called |-> TRUE, ret |-> TRUE]
    /\ UNCHANGED <<s_initialized_, s_rx_posted_, s_pkt_bufs, s_pkt, s_rx_out,
                   s_init_calls, bcmVars, custVars>>

\* poll_tx_completions()
S_PollTxCompletions ==
    /\ s_mem # "segv"
    /\ s_tx_posted_ > 0
    /\ s_tx_posted_' = s_tx_posted_ - 1
    /\ UNCHANGED <<s_initialized_, s_rx_posted_, s_pkt_bufs, s_pkt, s_rx_out,
                   s_tx_out, s_mem, s_init_calls, bcmVars, custVars>>

Init == BcmInit /\ CustInit /\ SolInit

BcmRxNext ==
    \/ BcmInitialize
    \/ \E len \in HwRxLens : HwRxWrite(len)
    \/ ReceivePacket

\* The polling caller keeps calling receive_packet; nothing is assumed of
\* the NIC, which may stall for ever.
SpecBcmRx == Init /\ [][BcmRxNext]_vars /\ WF_vars(ReceivePacket)

BcmTxNext ==
    \/ BcmInitialize
    \/ HwTxComplete
    \/ \E len \in TxLens : SendPacket(len)

SpecBcmTx == Init /\ [][BcmTxNext]_vars

\* send_packet one statement at a time, the NIC and the store buffer in
\* between
BcmTxStepsNext ==
    \/ BcmInitialize
    \/ HwTxComplete
    \/ \E len \in TxLens : SendPacketBegin(len)
    \/ SendPacketCopy
    \/ SendPacketDescriptor
    \/ SendPacketFence
    \/ SendPacketTail
    \/ TxStoresDrain

SpecBcmTxSteps == Init /\ [][BcmTxStepsNext]_vars

\* the caller's thread inside or between calls of send_packet with a frame
\* that fits a buffer, the call taken one statement at a time
SendPacketThread ==
    \/ SendPacketBegin(64)
    \/ SendPacketCopy
    \/ SendPacketDescriptor
    \/ SendPacketFence
    \/ SendPacketTail

BcmTxRetryNext ==
    \/ BcmInitialize
    \/ HwTxComplete
    \/ SendPacketThread

\* The NIC completes every descriptor handed to it, oldest first, and the
\* caller keeps calling send_packet.
SpecBcmTxFair ==
    /\ Init /\ [][BcmTxRetryNext]_vars
    /\ WF_vars(HwTxComplete)
    /\ WF_vars(SendPacketThread)

\* both directions of one initialized instance: the NIC delivers and
\* completes minimum-size frames, the caller receives and sends them, in
\* every interleaving
BcmRxTxNext ==
    \/ BcmInitialize
    \/ HwRxWrite(64)
    \/ ReceivePacket
    \/ HwTxComplete
    \/ SendPacket(64)

SpecBcmRxTx == Init /\ [][BcmRxTxNext]_vars

\* send_packet with its reclaim pass taken one iteration at a time, against
\* a NIC that completes descriptors in order and, while the pass runs, one
\* that writes any status into the descriptor the loop reads next
BcmReclaimNext ==
    \/ BcmInitialize
    \/ HwTxComplete
    \/ (~TxRingFull(NextIndex(tx_tail_, TX_RING_SIZE), tx_head_)
           /\ SendPacketBegin(64))
    \/ SendPacketFull(64)
    \/ ReclaimIteration
    \/ SendPacketRecheck
    \/ SendPacketCopy
    \/ SendPacketDescriptor
    \/ SendPacketFence
    \/ SendPacketTail
    \/ \E dd \in {0, DESC_STATUS_DD} : HwTxStatusWrite(tx_head_, dd)

SpecBcmReclaim == Init /\ [][BcmReclaimNext]_vars

\* the calling thread keeps executing: the loop is never suspended between
\* two iterations; nothing is assumed of the NIC
SpecBcmReclaimFair == SpecBcmReclaim /\ WF_vars(ReclaimIteration)

\* the life of one instance: initialize() and the teardown step by step,
\* in any order and number the caller may choose, and the data-path calls
\* made while the instance is not Running
BcmLifeNext ==
    \/ \E answer \in {"open_failed", "mmap_failed", "mapped"} : MapBar0(answer)
    \/ \E cleared \in BOOLEAN : ResetDevice(cleared)
    \/ \E fail \in {"none", "rx_ring_", "tx_ring_", "rx_buffers_", "tx_buffers_"},
          hp_rx \in BOOLEAN, hp_tx \in BOOLEAN : AllocateRings(fail, hp_rx, hp_tx)
    \/ ProgramRxRing
    \/ ProgramTxRing
    \/ EnableRxTx
    \/ SetInitialized
    \/ CleanupDisable
    \/ CleanupUnmapBar0
    \/ CleanupFreeRxRing
    \/ CleanupFreeTxRing
    \/ CleanupUnmapRxBuffers
    \/ CleanupUnmapTxBuffers
    \/ ReceivePacketNotRunning
    \/ \E len \in TxLens : SendPacketNotRunning(len)

SpecBcmLife == Init /\ [][BcmLifeNext]_vars

\* initialize() with reset_device poll by poll against a device that
\* completes the reset at any time or never, on a host where the window
\* maps and huge pages are available
BcmResetNext ==
    \/ MapBar0("mapped")
    \/ ResetDeviceThread
    \/ HwResetDone
    \/ \E fail \in {"none", "rx_ring_"} : AllocateRings(fail, TRUE, TRUE)
    \/ ProgramRxRing
    \/ ProgramTxRing
    \/ EnableRxTx
    \/ SetInitialized

\* the thread inside reset_device is scheduled
SpecBcmReset ==
    Init /\ [][BcmResetNext]_vars /\ WF_vars(ResetDeviceThread)

\* initialize() step by step, called any number of times on one instance,
\* with frames received and sent in between
BcmReinitNext ==
    \/ \E answer \in {"open_failed", "mmap_failed", "mapped"} : MapBar0(answer)
    \/ \E cleared \in BOOLEAN : ResetDevice(cleared)
    \/ \E fail \in {"none", "rx_ring_", "tx_ring_", "rx_buffers_", "tx_buffers_"},
          hp_rx \in BOOLEAN, hp_tx \in BOOLEAN : AllocateRings(fail, hp_rx, hp_tx)
    \/ ProgramRxRing
    \/ ProgramTxRing
    \/ EnableRxTx
    \/ SetInitialized
    \/ (hw_rx_count < MaxReinitTraffic /\ HwRxWrite(64))
    \/ ReceivePacket
    \/ HwTxComplete
    \/ (packets_sent_ < MaxReinitTraffic /\ SendPacket(64))

SpecBcmReinit == Init /\ [][BcmReinitNext]_vars

CustRxNext ==
    \/ CustInitialize
    \/ \E len \in C_HwRxLens : C_HwRxWrite(len)
    \/ PollRx
    \/ BusyWaitIteration

\* The caller keeps polling; nothing is assumed of the NIC.
SpecCustomRx == Init /\ [][CustRxNext]_vars /\ WF_vars(PollRx)

CustTxNext ==
    \/ CustInitialize
    \/ C_HwTxComplete
    \/ \E len \in C_TxLens : SubmitTx(len)

SpecCustomTx == Init /\ [][CustTxNext]_vars

\* initialize() called up to MaxInitCalls times, every outcome of every
\* system call it makes
CustInitNext ==
    \E open_ok, bar0_ok, rx_ring_ok, tx_ring_ok \in BOOLEAN,
       rx_fail \in 0 .. C_RX_RING_SIZE, tx_null \in SUBSET C_TxSlots :
        C_Initialize(open_ok, bar0_ok, rx_ring_ok, tx_ring_ok, rx_fail, tx_null)

SpecCustomInit == Init /\ [][CustInitNext]_vars

\* submit_tx one statement at a time, the NIC and the store buffer in
\* between
CustTxStepsNext ==
    \/ CustInitialize
    \/ C_HwTxComplete
    \/ \E len \in C_TxLens : SubmitTxBegin(len)
    \/ SubmitTxCopy
    \/ SubmitTxDescriptor
    \/ SubmitTxTailStore
    \/ SubmitTxFence
    \/ SubmitTxReturn
    \/ C_TxStoresDrain

SpecCustomTxSteps == Init /\ [][CustTxStepsNext]_vars

\* every operation of both drivers
SolNext ==
    \/ S_Initialize
    \/ S_PollRx
    \/ \E len \in SolTxLens : S_SubmitTx(len)
    \/ S_PollTxCompletions

SpecSolarflare == Init /\ [][SolNext]_vars

Next ==
    \/ BcmRxNext \/ BcmTxNext \/ BcmTxStepsNext \/ BcmTxRetryNext \/ BcmLifeNext \/ BcmResetNext
    \/ BcmReinitNext \/ BcmReclaimNext
    \/ CustRxNext \/ CustTxNext \/ CustTxStepsNext \/ CustInitNext
    \/ SolNext

Spec == Init /\ [][Next]_vars

(***************************************************************************)
(* Properties of the BroadcomNetXtreme RX path (under SpecBcmRx).          *)
(***************************************************************************)
\* the descriptor at rx_head_ has its DD bit set
RxHeadDone == rx_ring_[rx_head_].status % 2 = 1

\* C1: with the NIC filling the slots it was granted in index order and a
\* caller that keeps calling receive_packet, the k-th successful call
\* returns the k-th frame the NIC delivered, out of the buffer of descriptor
\* (k - 1) mod RX_RING_SIZE (each frame once, in descriptor order, through
\* every wraparound), and every frame the NIC marked done is eventually
\* returned.
C1_RxFifoExactlyOnce ==
    /\ [](rx_out.ret =>
            /\ rx_out.frame = packets_received_
            /\ rx_out.packet_out =
                 ((packets_received_ - 1) % RX_RING_SIZE) * MAX_PACKET_SIZE)
    /\ [](packets_received_ <= hw_rx_count)
    /\ \A k \in 1 .. MaxFrames :
          (hw_rx_count >= k) ~> (packets_received_ >= k)

\* every frame of a run that wrapped the ring twice has been returned
C1_Witness ==
    /\ hw_rx_count > 2 * RX_RING_SIZE
    /\ packets_received_ = hw_rx_count
    /\ rx_out.ret
    /\ rx_out.frame = hw_rx_count

\* C3: a receive_packet call that finds DD clear at rx_head_ returns false
\* and changes neither rx_head_, nor any RX descriptor, nor the RX tail
\* register, nor packets_received_ (nor the caller's out-parameters).
C3_NoFalsePositive ==
    [][(ReceivePacket /\ ~RxHeadDone) =>
          /\ rx_out'.called /\ ~rx_out'.ret
          /\ rx_out'.packet_out = rx_out.packet_out
          /\ rx_out'.len_out = rx_out.len_out
          /\ UNCHANGED <<rx_head_, rx_ring_, rx_buffers_, reg_rx_tail,
                         reg_rx_head, packets_received_>>]_vars

\* "no packet" was reported on a ring that has wrapped and been drained
C3_Witness ==
    /\ rx_out.called /\ ~rx_out.ret
    /\ packets_received_ > RX_RING_SIZE
    /\ packets_received_ = hw_rx_count
    /\ ~RxHeadDone

\* the slot a returned buffer pointer belongs to
SlotOfPacket(ptr) == ptr \div MAX_PACKET_SIZE

\* C10 as stated: after a successful receive_packet the RX tail register
\* holds the new software head.
C10_TailIsNewHead ==
    rx_out.ret => reg_rx_tail = rx_head_

\* C10 as amended: after a successful receive_packet that consumed slot h
\* the RX tail register holds h, one behind the new head (h + 1) mod
\* RX_RING_SIZE.
C10_TailIsConsumedSlot ==
    rx_out.ret =>
        /\ reg_rx_tail = SlotOfPacket(rx_out.packet_out)
        /\ rx_head_ = (reg_rx_tail + 1) % RX_RING_SIZE

\* the last slot of the ring was consumed: the head wrapped to 0 and the
\* tail register holds RX_RING_SIZE - 1
C10_Witness ==
    /\ rx_out.ret
    /\ packets_received_ = 2 * RX_RING_SIZE
    /\ rx_head_ = 0
    /\ reg_rx_tail = RX_RING_SIZE - 1

\* C11: a receive_packet call that finds DD set at slot h = rx_head_
\* returns the buffer of slot h and the length of descriptor h, clears DD
\* of descriptor h, advances rx_head_ to (h + 1) mod RX_RING_SIZE and
\* modifies no other RX descriptor (and no field of descriptor h but its
\* status).
C11_ReceiveConsumesHeadSlot ==
    [][(ReceivePacket /\ RxHeadDone) =>
          LET h == rx_head_
          IN /\ rx_out'.called /\ rx_out'.ret
             /\ rx_out'.packet_out = BufferAddr(h)
             /\ SlotOfAddr(rx_ring_[h].buffer_addr) = h
             /\ rx_out'.len_out = rx_ring_[h].length
             /\ rx_ring_'[h].status % 2 = 0
             /\ rx_ring_'[h].buffer_addr = rx_ring_[h].buffer_addr
             /\ rx_ring_'[h].length = rx_ring_[h].length
             /\ rx_head_' = (h + 1) % RX_RING_SIZE
             /\ \A i \in RxSlots : i # h => rx_ring_'[i] = rx_ring_[i]]_vars

\* the last slot of the ring was consumed on the second lap while the NIC
\* had already refilled slot 0: its DD is clear, the head wrapped to 0 and
\* the other descriptor still carries DD
C11_Witness ==
    /\ rx_out.ret
    /\ rx_out.packet_out = BufferAddr(RX_RING_SIZE - 1)
    /\ packets_received_ = 2 * RX_RING_SIZE
    /\ rx_head_ = 0
    /\ rx_ring_[RX_RING_SIZE - 1].status % 2 = 0
    /\ rx_ring_[0].status % 2 = 1

\* C12: the length receive_packet (Broadcom) and poll_rx (CustomNICDriver)
\* report never exceeds the capacity of the slot's buffer, whatever the NIC
\* wrote into the 16-bit length field.
C12_LengthWithinBuffer ==
    /\ rx_out.ret => rx_out.len_out <= MAX_PACKET_SIZE
    /\ c_rx_out.ret => c_rx_out.packet_len <= PACKET_BUFFER_SIZE

\* C12, CustomNICDriver's half alone (under SpecCustomRx)
C12_CustomLengthWithinBuffer ==
    c_rx_out.ret => c_rx_out.packet_len <= PACKET_BUFFER_SIZE

(***************************************************************************)
(* Properties of the BroadcomNetXtreme TX path (under SpecBcmTx).          *)
(***************************************************************************)
\* submitted and not yet reclaimed slots
TxOutstanding == (tx_tail_ - tx_head_) % TX_RING_SIZE

\* no descriptor from tx_head_ up to tx_tail_ carries DD
NoTxCompletionSignalled ==
    \A i \in TxSlots :
        ((i - tx_head_) % TX_RING_SIZE) < TxOutstanding
            => tx_ring_[i].status % 2 = 0

\* the NIC has not completed any transmission yet
NoCompletionEver ==
    /\ reg_tx_head = 0
    /\ \A i \in TxSlots : tx_ring_[i].status % 2 = 0

\* a send_packet call returned (it did not fault)
SendReturned(len) == SendPacket(len) /\ tx_mem' # "segv"

\* C4: send_packet writes neither the buffer nor the descriptor of a slot
\* that is in flight (submitted, transmission not yet completed).
C4_NoWriteInFlight ==
    [][\A len \in TxLens : SendPacket(len) =>
          \A i \in TxSlots : tx_inflight[i] =>
              /\ tx_buffers_'[i] = tx_buffers_[i]
              /\ tx_ring_'[i] = tx_ring_[i]]_vars

\* C4 for frames that fit a buffer: the ring discipline alone never
\* touches an in-flight slot.
C4_NoWriteInFlightLegalLength ==
    [][\A len \in TxLens : (SendPacket(len) /\ len <= MAX_PACKET_SIZE) =>
          \A i \in TxSlots : tx_inflight[i] =>
              /\ tx_buffers_'[i] = tx_buffers_[i]
              /\ tx_ring_'[i] = tx_ring_[i]]_vars

\* C6: while the NIC has signalled no completion among the outstanding
\* slots, send_packet succeeds exactly when fewer than TX_RING_SIZE - 1
\* slots are outstanding, a success makes one more slot outstanding, and a
\* rejected call ((tx_tail_ + 1) mod N = tx_head_) changes nothing; so from
\* the empty ring of initialize() exactly TX_RING_SIZE - 1 calls succeed.
C6_CapacityIsNMinusOne ==
    /\ [][\A len \in TxLens : (SendReturned(len) /\ NoTxCompletionSignalled) =>
            /\ tx_out'.called
            /\ tx_out'.ret <=> (TxOutstanding < TX_RING_SIZE - 1)
            /\ tx_out'.ret =>
                 /\ TxOutstanding' = TxOutstanding + 1
                 /\ packets_sent_' = packets_sent_ + 1
            /\ ~tx_out'.ret =>
                 /\ NextIndex(tx_tail_, TX_RING_SIZE) = tx_head_
                 /\ UNCHANGED <<tx_tail_, tx_head_, reg_tx_tail, tx_ring_,
                                tx_buffers_, packets_sent_>>]_vars
    /\ []((initialized_ /\ NoCompletionEver) =>
            /\ tx_tail_ = packets_sent_
            /\ packets_sent_ <= TX_RING_SIZE - 1
            /\ (tx_out.called /\ ~tx_out.ret) => packets_sent_ = TX_RING_SIZE - 1)

\* the call after TX_RING_SIZE - 1 accepted ones was rejected, no
\* completion having been signalled
C6_Witness ==
    /\ tx_out.called /\ ~tx_out.ret
    /\ packets_sent_ = TX_RING_SIZE - 1
    /\ tx_tail_ = TX_RING_SIZE - 1
    /\ tx_head_ = 0
    /\ reg_tx_head = 0

\* the length of the run of DD-set descriptors that starts at tx_head_
\* and stays before tx_tail_
CompletedRun ==
    LET S == {j \in 0 .. TxOutstanding :
                \A m \in 0 .. (j - 1) :
                    tx_ring_[(tx_head_ + m) % TX_RING_SIZE].status % 2 = 1}
    IN CHOOSE j \in S : \A j2 \in S : j2 <= j

\* the send_packet calls that can still succeed if the NIC completes
\* nothing more
FreeTxCapacity == (TX_RING_SIZE - 1) - (TxOutstanding - CompletedRun)

\* C7: the capacity of the TX ring is TX_RING_SIZE - 1 less the frames the
\* NIC has not completed: a full ring has none, each descriptor the NIC
\* marks done (oldest first) adds one, send_packet (with its reclaim pass)
\* succeeds exactly while some is left and each success uses one up.  So k
\* completions on a full ring make the next k calls succeed and the
\* (k+1)-th return false.
C7_ReclaimRestoresExactlyK ==
    /\ [](initialized_ =>
            FreeTxCapacity =
                (TX_RING_SIZE - 1) - Cardinality({i \in TxSlots : tx_inflight[i]}))
    /\ [][HwTxComplete => FreeTxCapacity' = FreeTxCapacity + 1]_vars
    /\ [][\A len \in TxLens : SendReturned(len) =>
            /\ tx_out'.called
            /\ tx_out'.ret <=> (FreeTxCapacity >= 1)
            /\ tx_out'.ret => FreeTxCapacity' = FreeTxCapacity - 1
            /\ ~tx_out'.ret => FreeTxCapacity' = 0]_vars

\* the ring was filled (TX_RING_SIZE - 1 frames), the NIC completed the two
\* oldest, two more calls succeeded through the reclaim pass and the third
\* was rejected
C7_Witness ==
    /\ tx_out.called /\ ~tx_out.ret
    /\ packets_sent_ = (TX_RING_SIZE - 1) + 2
    /\ reg_tx_head = 2
    /\ tx_head_ = 2
    /\ TxOutstanding = TX_RING_SIZE - 1

\* the slots the NIC may fetch: from tx_head_ up to, not including, the
\* value of the TX tail register
TxPublished(i) ==
    ((i - tx_head_) % TX_RING_SIZE) < ((reg_tx_tail - tx_head_) % TX_RING_SIZE)

\* the frame submitted last to slot i, one of the published slots
TxFrameOfSlot(i) == packets_sent_ - ((tx_tail_ - 1 - i) % TX_RING_SIZE)

\* what DMA reads see in slot i is the complete descriptor and buffer of
\* the slot's frame
TxSlotComplete(i) ==
    /\ nic_tx_ring[i].buffer_addr = BufferAddr(i)
    /\ BitAnd(nic_tx_ring[i].cmd_type_len, DESC_CMD_EOP) # 0
    /\ BitAnd(nic_tx_ring[i].cmd_type_len, 65535) \in TxLens
    /\ tx_inflight[i] => nic_tx_ring[i].status % 2 = 0
    /\ nic_tx_buffers[i] = TxFrameOfSlot(i)

\* C13: send_packet copies the frame, writes the descriptor and issues the
\* store barrier before it writes the TX tail register; whenever the tail
\* register holds t, every slot from tx_head_ up to but excluding t has,
\* in the memory the NIC reads, the completely written descriptor and
\* buffer of its frame.
C13_PublishedSlotsComplete ==
    /\ [][reg_tx_tail' # reg_tx_tail =>
            /\ sp_pc = "tail"
            /\ nic_tx_ring[tx_tail_] = tx_ring_[tx_tail_]
            /\ nic_tx_buffers[tx_tail_] = packets_sent_ + 1]_vars
    /\ [](initialized_ => \A i \in TxSlots : TxPublished(i) => TxSlotComplete(i))

\* no frame longer than a buffer is in the ring or being submitted
TxLengthsLegal ==
    /\ sp_len <= MAX_PACKET_SIZE
    /\ tx_mem = "ok"
    /\ \A i \in TxSlots : BitAnd(tx_ring_[i].cmd_type_len, 65535) <= MAX_PACKET_SIZE

\* C13 while every frame fits its buffer: the order of the statements of
\* send_packet alone keeps the published slots complete.
C13_PublishedSlotsCompleteLegalLength ==
    [](initialized_ /\ TxLengthsLegal =>
          \A i \in TxSlots : TxPublished(i) => TxSlotComplete(i))

\* C8: send_packet with a length above MAX_PACKET_SIZE returns false and
\* writes no TX buffer byte, no descriptor, no cursor, not the TX tail
\* register and not packets_sent_.
C8_OversizeRejected ==
    [][\A len \in TxLens : (SendPacket(len) /\ len > MAX_PACKET_SIZE) =>
          /\ tx_out'.called /\ ~tx_out'.ret
          /\ UNCHANGED <<tx_buffers_, tx_ring_, tx_tail_, tx_head_,
                         reg_tx_tail, packets_sent_>>]_vars

(***************************************************************************)
(* Properties of the CustomNICDriver RX path (under SpecCustomRx).         *)
(***************************************************************************)
\* C2: with a caller that keeps calling poll_rx, the k-th packet handed to
\* the caller is the k-th frame the NIC delivered, and every frame the NIC
\* marked done is eventually handed to the caller, also when the NIC has
\* filled every slot it was granted.
C2_RxFifoEventually ==
    /\ [](c_rx_out.ret => c_rx_out.frame = c_rx_returned)
    /\ \A k \in 1 .. MaxFrames :
          (c_hw_rx_count >= k) ~> (c_rx_returned >= k)

\* the state C2 excludes: every descriptor holds a completed frame, and
\* poll_rx has just reported "no packet"
C2_FullRingReadAsEmpty ==
    /\ c_initialized_
    /\ \A i \in C_RxSlots : c_rx_ring_[i].status_flags % 2 = 1
    /\ c_reg_rx_head = c_rx_head_
    /\ c_rx_out.called /\ ~c_rx_out.ret

(***************************************************************************)
(* Properties of the CustomNICDriver TX path (under SpecCustomTx).         *)
(***************************************************************************)
\* every usable TX slot is outstanding: (tx_tail_ + 1) mod TX_RING_SIZE is
\* the oldest unfinished slot
C_TxAllOutstanding ==
    /\ (c_tx_tail_ + 1) % C_TX_RING_SIZE = c_reg_tx_head
    /\ \A i \in C_TxSlots : i # c_tx_tail_ => c_tx_inflight[i]

\* C5: submit_tx never takes a slot whose previous transmission is still
\* outstanding, and with every usable slot outstanding it returns false and
\* writes no buffer, descriptor or register.
C5_FullRingRejected ==
    [][\A len \in C_TxLens : SubmitTx(len) =>
          /\ c_tx_out'.ret => ~c_tx_inflight[c_tx_tail_]
          /\ C_TxAllOutstanding =>
                /\ c_tx_out'.called /\ ~c_tx_out'.ret
                /\ UNCHANGED <<c_tx_buffers_, c_tx_ring_, c_tx_tail_,
                               c_reg_tx_tail>>]_vars

\* C9: submit_tx with packet_len above PACKET_BUFFER_SIZE returns false and
\* leaves tx_tail_, the TX descriptors and buffers and TX_TAIL unchanged; a
\* length of exactly PACKET_BUFFER_SIZE is accepted and submitted.
C9_OversizeRejectedExactFitAccepted ==
    [][\A len \in C_TxLens : SubmitTx(len) =>
          /\ len > PACKET_BUFFER_SIZE =>
                /\ c_tx_out'.called /\ ~c_tx_out'.ret
                /\ UNCHANGED <<c_tx_tail_, c_tx_ring_, c_tx_buffers_,
                               c_reg_tx_tail>>
          /\ len = PACKET_BUFFER_SIZE =>
                /\ c_tx_out'.called /\ c_tx_out'.ret
                /\ c_tx_ring_'[c_tx_tail_].cmd_type_len \div 65536 = len
                /\ c_reg_tx_tail' = (c_tx_tail_ + 1) % C_TX_RING_SIZE]_vars

\* an oversize frame was rejected after a frame of exactly
\* PACKET_BUFFER_SIZE bytes had been accepted
C9_Witness ==
    /\ c_tx_out.called /\ ~c_tx_out.ret
    /\ \E i \in C_TxSlots :
          c_tx_ring_[i].cmd_type_len \div 65536 = PACKET_BUFFER_SIZE

\* C14: in submit_tx (and, through the same write_reg32, in poll_rx) the
\* store-ordering barrier comes after the descriptor and buffer writes and
\* before the store to the tail register: at the step that changes TX_TAIL
\* the stores to the slot it announces have reached memory, so the NIC
\* never sees the new tail before the descriptor and the buffer.
C14_BarrierBeforeTailWrite ==
    [][c_reg_tx_tail' # c_reg_tx_tail =>
          /\ c_nic_tx_ring[c_tx_tail_] = c_tx_ring_[c_tx_tail_]
          /\ c_nic_tx_buffers[c_tx_tail_] = c_tx_buffers_[c_tx_tail_]]_vars

\* the state C14 excludes: TX_TAIL announces a slot whose descriptor has
\* not reached memory
C14_TailAheadOfDescriptor ==
    /\ c_st_pc = "mfence"
    /\ c_reg_tx_tail = (c_tx_tail_ + 1) % C_TX_RING_SIZE
    /\ c_nic_tx_ring[c_tx_tail_] # c_tx_ring_[c_tx_tail_]

\* C15: a receive_packet or send_packet call on an instance that is not
\* Running (never initialized, initialize() failed, or torn down) returns
\* false and leaves the cursors, the descriptors, the buffers, the tail
\* registers and the counters as they were.
C15_NotRunningCallsRejected ==
    [][/\ ReceivePacketNotRunning =>
             /\ rx_out'.called /\ ~rx_out'.ret
             /\ life_pc' = life_pc
             /\ UNCHANGED <<rx_ring_, rx_head_, reg_rx_tail, packets_received_>>
       /\ (\E len \in TxLens : SendPacketNotRunning(len)) =>
             /\ tx_out'.called /\ ~tx_out'.ret
             /\ life_pc' = life_pc
             /\ UNCHANGED <<tx_ring_, tx_buffers_, tx_head_, tx_tail_, reg_tx_tail,
                            packets_sent_>>]_vars

\* C16: poll_rx and submit_tx called before initialize() return false and
\* leave rx_posted_, tx_posted_, every packet buffer pointer and the
\* caller's packet unchanged.
C16_CallsBeforeInitializeRejected ==
    [][/\ (S_PollRx /\ ~s_initialized_) =>
             /\ s_rx_out'.called /\ ~s_rx_out'.ret
             /\ s_mem' = "ok"
             /\ UNCHANGED <<s_rx_posted_, s_tx_posted_, s_pkt_bufs, s_pkt>>
       /\ ((\E len \in SolTxLens : S_SubmitTx(len)) /\ ~s_initialized_) =>
             /\ s_tx_out'.called /\ ~s_tx_out'.ret
             /\ s_mem' = "ok"
             /\ UNCHANGED <<s_rx_posted_, s_tx_posted_, s_pkt_bufs, s_pkt>>]_vars

\* both methods have been called and rejected on an instance that was
\* never initialized
C16_Witness ==
    /\ ~s_initialized_ /\ s_init_calls = 0
    /\ s_rx_out.called /\ ~s_rx_out.ret
    /\ s_tx_out.called /\ ~s_tx_out.ret
    /\ s_rx_posted_ = 0 /\ s_tx_posted_ = 0
    /\ \A i \in SolBufIds : s_pkt_bufs[i] = "indeterminate"

\* the hardware RX or TX enable bit is set
HwEnabled ==
    \/ BitAnd(reg_rx_ctrl, CTRL_RX_ENABLE) # 0
    \/ BitAnd(reg_tx_ctrl, CTRL_TX_ENABLE) # 0

HwEnabledBoth ==
    /\ BitAnd(reg_rx_ctrl, CTRL_RX_ENABLE) # 0
    /\ BitAnd(reg_tx_ctrl, CTRL_TX_ENABLE) # 0

\* the five resources are held, every RX descriptor is bound to its buffer
\* and the ring registers hold the base, size, head and tail of the rings
RingsProgrammed ==
    /\ \A r \in Res : heap[r].ptr = "valid"
    /\ \A i \in RxSlots : rx_ring_[i].buffer_addr = BufferAddr(i)
    /\ reg_rx_base = heap["rx_ring_"].addr /\ reg_rx_base # 0
    /\ reg_rx_size = RX_RING_SIZE
    /\ reg_rx_head = 0 /\ reg_rx_tail = RX_RING_SIZE - 1
    /\ reg_tx_base = heap["tx_ring_"].addr /\ reg_tx_base # 0
    /\ reg_tx_size = TX_RING_SIZE
    /\ reg_tx_head = 0 /\ reg_tx_tail = 0

\* C18: initialize() sets the RX and TX enable bits only when every RX
\* descriptor is bound to its buffer and the base, size, head and tail
\* registers of both rings are programmed, and sets initialized_ only when
\* both enable bits are set; the hardware is never enabled with a ring
\* base or size register unprogrammed.
C18_EnableAfterProgramming ==
    /\ [][/\ (~HwEnabled /\ HwEnabled') => RingsProgrammed
          /\ EnableRxTx => RingsProgrammed
          /\ SetInitialized => HwEnabledBoth]_vars
    /\ [](HwEnabled => /\ reg_rx_base # 0 /\ reg_rx_size = RX_RING_SIZE
                       /\ reg_tx_base # 0 /\ reg_tx_size = TX_RING_SIZE)

\* the first initialize() of an instance has run all its steps: the engine
\* is Running on programmed rings
C18_Witness ==
    /\ life_pc = "idle" /\ init_calls = 1 /\ cleanup_calls = 0
    /\ init_out.called /\ init_out.ret
    /\ initialized_
    /\ HwEnabledBoth
    /\ RingsProgrammed

\* the DMA memory of the engine: the two rings and the two pools
DmaRes == {"rx_ring_", "tx_ring_", "rx_buffers_", "tx_buffers_"}

\* C19: whenever cleanup() runs on an engine whose hardware RX/TX is
\* enabled it writes both control registers to disabled first, and no
\* ring or pool is freed or unmapped while an enable bit is set.
C19_DisableBeforeRelease ==
    /\ [][/\ (CleanupDisable /\ HwEnabled /\ life_pc' # "crashed") => ~HwEnabled'
          /\ (\E r \in DmaRes : heap'[r].freed > heap[r].freed) => ~HwEnabled
          /\ (\E r \in DmaRes : heap[r].ptr = "dangling") => ~HwEnabled']_vars
    /\ [](life_pc \in {"unmap_bar0", "free_rx_ring", "free_tx_ring",
                       "unmap_rx_buffers", "unmap_tx_buffers"} => ~HwEnabled)

\* the teardown of a Running engine has run to its end: the hardware is
\* disabled and each DMA area has been released
C19_Witness ==
    /\ life_pc = "idle" /\ cleanup_calls = 1 /\ init_calls = 1
    /\ init_out.ret /\ initialized_
    /\ ~HwEnabled
    /\ \A r \in DmaRes : heap[r].ptr = "dangling" /\ heap[r].freed = 1

\* C20: over two runs of cleanup() on one instance each of the register
\* mapping, the two rings and the two pools is released at most once, and
\* no register is written through a window that is not mapped.
C20_TeardownTwiceReleasesOnce ==
    /\ \A r \in Res : heap[r].freed <= 1
    /\ "double free" \notin ub_log
    /\ "munmap of a released range" \notin ub_log
    /\ cleanup_calls = 2 =>
          "register access through an invalid window" \notin ub_log

(***************************************************************************)
(* Properties of a BroadcomNetXtreme instance that is initialized more     *)
(* than once (under SpecBcmReinit).                                        *)
(***************************************************************************)
\* the software cursors are 0 and equal to the head and tail the ring
\* registers were programmed with, and no descriptor carries DD
RingsFresh ==
    /\ rx_head_ = 0 /\ tx_head_ = 0 /\ tx_tail_ = 0
    /\ reg_rx_head = rx_head_
    /\ reg_tx_head = tx_head_ /\ reg_tx_tail = tx_tail_
    /\ \A i \in RxSlots : ~HasDD(rx_ring_[i].status)
    /\ \A i \in TxSlots : ~HasDD(tx_ring_[i].status)

\* C21: every initialize() that succeeds, the first one of an instance or
\* a later one, hands the rings to the hardware (enable_rx_tx) and returns
\* with rx_head_, tx_head_ and tx_tail_ at 0, equal to the programmed head
\* and tail registers, and with no DD bit in either ring.
C21_InitializeStartsFresh ==
    [][/\ EnableRxTx => RingsFresh
       /\ SetInitialized => (rx_head_' = 0 /\ tx_head_' = 0 /\ tx_tail_' = 0)]_vars

(***************************************************************************)
(* Properties of the reclaim pass (under SpecBcmReclaim).                  *)
(***************************************************************************)
\* tx_head_ as it was when the current reclaim pass began
ReclaimEntryHead == (tx_head_ + (TX_RING_SIZE - 1) * rc_iters) % TX_RING_SIZE

\* C22: each iteration of reclaim_tx_descriptors steps tx_head_ over the
\* descriptor at tx_head_ exactly when tx_head_ # tx_tail_ and that
\* descriptor has DD, and the pass ends at the first descriptor without DD
\* or at tx_tail_; the pass never carries tx_head_ past tx_tail_ and
\* changes neither tx_tail_ nor the TX tail register.
C22_ReclaimStepsOverCompletedRun ==
    /\ [][ReclaimIteration =>
            /\ tx_tail_' = tx_tail_ /\ reg_tx_tail' = reg_tx_tail
            /\ IF tx_head_ # tx_tail_ /\ tx_ring_[tx_head_].status % 2 = 1
               THEN /\ tx_head_' = (tx_head_ + 1) % TX_RING_SIZE
                    /\ sp_pc' = "reclaim"
               ELSE /\ tx_head_' = tx_head_
                    /\ sp_pc' = "recheck"]_vars
    /\ [](sp_pc \in {"reclaim", "recheck"} =>
            rc_iters <= (tx_tail_ + TX_RING_SIZE - ReclaimEntryHead) % TX_RING_SIZE)

\* a pass stepped over two completed descriptors and stopped short of
\* tx_tail_ at one the NIC has not completed
C22_Witness ==
    /\ sp_pc = "recheck"
    /\ rc_iters = 2
    /\ tx_head_ # tx_tail_
    /\ tx_ring_[tx_head_].status % 2 = 0
    /\ tx_inflight[tx_head_]

\* C23: a reclaim pass makes at most TX_RING_SIZE - 1 iterations and comes
\* to its end whatever statuses the NIC writes meanwhile: send_packet does
\* not wait for the hardware.
C23_ReclaimTerminates ==
    /\ [](rc_iters <= TX_RING_SIZE - 1)
    /\ (sp_pc = "reclaim") ~> (sp_pc = "recheck")

\* a pass made the largest number of iterations, over a whole ring of
\* completed descriptors
C23_Witness ==
    /\ sp_pc = "recheck"
    /\ rc_iters = TX_RING_SIZE - 1
    /\ tx_head_ = tx_tail_

C_HwMayFill ==
    {(c_reg_rx_head + k) % C_RX_RING_SIZE :
        k \in 0 .. ((c_reg_rx_tail + C_RX_RING_SIZE - c_reg_rx_head)
                       % C_RX_RING_SIZE) - 1}

\* C25: while the caller holds the buffer the last poll_rx (or iteration
\* of busy_wait_loop) returned, that is until its next call, the slot of
\* that buffer is not among those the NIC may fill, and the frame in it is
\* the one that was returned.
C25_ReturnedSlotWithheld ==
    (c_rx_out.called /\ c_rx_out.ret) =>
        /\ c_rx_out.packet_data \notin C_HwMayFill
        /\ c_rx_buffers_[c_rx_out.packet_data] = c_rx_out.frame

(***************************************************************************)
(* Ownership of the BroadcomNetXtreme RX slots (under SpecBcmRx).          *)
(***************************************************************************)
\* the slots the NIC may fill: from REG_RX_RING_HEAD up to, not including,
\* REG_RX_RING_TAIL
HwMayFill ==
    {(reg_rx_head + k) % RX_RING_SIZE :
        k \in 0 .. ((reg_rx_tail + RX_RING_SIZE - reg_rx_head) % RX_RING_SIZE) - 1}

\* the slots that hold a frame the NIC completed and receive_packet has not
\* returned yet
RxUnread == {i \in RxSlots : HasDD(rx_ring_[i].status)}

\* C26: the slots the RX tail register grants to the NIC and the slots
\* that hold a frame not yet returned by receive_packet are disjoint, and
\* the NIC never writes a frame into a slot that holds one.
C26_GrantedSlotsHoldNoUnreadFrame ==
    /\ [](initialized_ => HwMayFill \cap RxUnread = {})
    /\ [][\A len \in HwRxLens : HwRxWrite(len) => reg_rx_head \notin RxUnread]_vars

\* on the second lap of the ring unread frames and granted slots exist
\* side by side
C26_Witness ==
    /\ packets_received_ > RX_RING_SIZE
    /\ Cardinality(RxUnread) = 2
    /\ Cardinality(HwMayFill) = 1
    /\ HwMayFill \cap RxUnread = {}

SteppedOver(i) ==
    ((i - tx_head_) % TX_RING_SIZE) < ((tx_head_' - tx_head_) % TX_RING_SIZE)

\* C28: every TX slot the reclaim pass steps over was completed by the NIC
\* after its most recent submission; send_packet has cleared DD, in the
\* memory DMA sees, when the tail register hands the slot over, and a slot
\* whose transmission is unfinished never carries DD.
C28_ReclaimedSlotsWereCompleted ==
    /\ [][\A i \in TxSlots : SteppedOver(i) =>
              /\ ~tx_inflight[i]
              /\ HasDD(tx_ring_[i].status)
              /\ TxFrameOfSlot(i) \in 1..packets_sent_]_vars
    /\ [][SendPacketTail =>
              /\ ~HasDD(tx_ring_[tx_tail_].status)
              /\ ~HasDD(nic_tx_ring[tx_tail_].status)]_vars
    /\ [](\A i \in TxSlots : tx_inflight[i] =>
              /\ ~HasDD(tx_ring_[i].status)
              /\ ~HasDD(nic_tx_ring[i].status))

\* a slot used on an earlier lap, reclaimed with DD set, is at the tail
\* write of its next submission, DD cleared, while an older transmission is
\* unfinished and a completed one awaits the next reclaim pass
C28_Witness ==
    /\ sp_pc = "tail"
    /\ packets_sent_ >= TX_RING_SIZE
    /\ ~HasDD(nic_tx_ring[tx_tail_].status)
    /\ \E i \in TxSlots : tx_inflight[i]
    /\ \E j \in TxSlots : j # tx_tail_ /\ HasDD(tx_ring_[j].status) /\ ~tx_inflight[j]

\* the TX slots from tx_head_ up to tx_tail_
TxUnreclaimed ==
    {i \in TxSlots : ((i - tx_head_) % TX_RING_SIZE) < TxOutstanding}

\* the slots a step moves tx_head_ over, and the slot it submits
TxStepped == {i \in TxSlots : SteppedOver(i)}
TxSubmitted == IF packets_sent_' # packets_sent_ THEN {tx_tail_} ELSE {}

\* C29: the cursors stay inside their rings, and the slots submitted and
\* not yet reclaimed are the (tx_tail_ - tx_head_) mod TX_RING_SIZE slots
\* from tx_head_ up to tx_tail_, at most TX_RING_SIZE - 1 of them: none
\* after construction, a successful send_packet adds the slot at tx_tail_,
\* which was not among them, a reclaim pass removes slots that were, and
\* nothing else changes them.
C29_CursorsInRangeOccupancyExact ==
    /\ [](/\ rx_head_ \in 0 .. (RX_RING_SIZE - 1)
          /\ tx_head_ \in 0 .. (TX_RING_SIZE - 1)
          /\ tx_tail_ \in 0 .. (TX_RING_SIZE - 1)
          /\ Cardinality(TxUnreclaimed) = TxOutstanding
          /\ TxOutstanding <= TX_RING_SIZE - 1
          /\ TxOutstanding <= packets_sent_)
    /\ [][/\ TxStepped \subseteq TxUnreclaimed
          /\ TxSubmitted \cap (TxUnreclaimed \ TxStepped) = {}
          /\ TxUnreclaimed' = (TxUnreclaimed \ TxStepped) \cup TxSubmitted
          /\ TxOutstanding' = TxOutstanding - Cardinality(TxStepped)
                                  + Cardinality(TxSubmitted)]_vars

\* both rings have wrapped, the TX ring twice, and the TX ring is full with
\* tx_tail_ numerically below tx_head_
C29_Witness ==
    /\ packets_received_ > RX_RING_SIZE
    /\ packets_sent_ > 2 * TX_RING_SIZE
    /\ tx_tail_ < tx_head_
    /\ TxOutstanding = TX_RING_SIZE - 1
    /\ rx_head_ > 0

\* the last send_packet returned false / returned true
TxRejected == tx_out.called /\ ~tx_out.ret
TxAccepted == tx_out.called /\ tx_out.ret

\* C30: with a NIC that completes every submitted descriptor, oldest
\* first, and a caller that keeps calling, a send_packet rejected for a full
\* ring is eventually followed by a send_packet that succeeds.
C30_RejectedSendEventuallyAccepted ==
    TxRejected ~> TxAccepted

\* a rejection on a full ring none of whose slots is completed, after the
\* ring has wrapped
C30_Witness ==
    /\ TxRejected
    /\ tx_mem = "ok"
    /\ packets_sent_ > TX_RING_SIZE
    /\ TxOutstanding = TX_RING_SIZE - 1
    /\ \A i \in TxUnreclaimed : tx_inflight[i]

\* the address is that of the first byte of buffer i of its pool
AddrOfBuffer(addr, i) == addr = i * MAX_PACKET_SIZE

\* send_packet has written TX descriptor i at least once
TxDescriptorWritten(i) == tx_ring_[i].cmd_type_len # 0

\* C31: every ring slot stays bound to the buffer of its own index: RX
\* descriptor i holds the address of RX buffer i from initialize() on,
\* receive_packet returns the buffer, and the frame, of the slot it
\* inspected, every TX descriptor send_packet writes for slot i holds the
\* address of TX buffer i, the NIC is handed no other address, and no step
\* changes the address a descriptor holds.
C31_SlotBoundToOwnBuffer ==
    /\ [](initialized_ =>
            /\ \A i \in RxSlots : AddrOfBuffer(rx_ring_[i].buffer_addr, i)
            /\ \A i \in TxSlots :
                  /\ TxDescriptorWritten(i) =>
                        AddrOfBuffer(tx_ring_[i].buffer_addr, i)
                  /\ nic_tx_ring[i].cmd_type_len # 0 =>
                        AddrOfBuffer(nic_tx_ring[i].buffer_addr, i))
    /\ [][ReceivePacket /\ rx_out'.ret =>
            /\ rx_out'.packet_out = rx_ring_[rx_head_].buffer_addr
            /\ AddrOfBuffer(rx_out'.packet_out, rx_head_)
            /\ rx_out'.frame = rx_buffers_[rx_head_]]_vars
    /\ [][packets_sent_' # packets_sent_ =>
            /\ tx_ring_'[tx_tail_].cmd_type_len # 0
            /\ AddrOfBuffer(tx_ring_'[tx_tail_].buffer_addr, tx_tail_)
            /\ \A i \in TxSlots \ {tx_tail_} : tx_ring_'[i] = tx_ring_[i]]_vars
    /\ [][initialized_ =>
            /\ \A i \in RxSlots :
                  rx_ring_'[i].buffer_addr = rx_ring_[i].buffer_addr
            /\ \A i \in TxSlots : TxDescriptorWritten(i) =>
                  tx_ring_'[i].buffer_addr = tx_ring_[i].buffer_addr]_vars

\* both rings have wrapped: the frame returned last came from a slot other
\* than slot 0 on its second use, and a TX slot other than slot 0 has been
\* written a second time
C31_Witness ==
    /\ rx_out.ret
    /\ packets_received_ > RX_RING_SIZE
    /\ rx_out.packet_out = rx_ring_[(rx_head_ + RX_RING_SIZE - 1) % RX_RING_SIZE].buffer_addr
    /\ rx_out.packet_out # 0
    /\ packets_sent_ > TX_RING_SIZE + 1
    /\ tx_tail_ > 1
    /\ TxDescriptorWritten(tx_tail_ - 1)

\* what poll_tx_completion would return in the current state
C_PollTxCompletion == poll_tx_completion(c_reg_tx_head, c_tx_tail_)

\* a TX slot holds no frame whose transmission is outstanding
C_TxSlotFree == \E i \in C_TxSlots : ~c_tx_inflight[i]

\* C32: poll_tx_completion returns true exactly when some TX slot is free
\* for a new submission; in particular it returns true when the NIC has
\* transmitted everything that was submitted.
C32_PollTxCompletionIffSlotFree ==
    c_initialized_ => (C_PollTxCompletion <=> C_TxSlotFree)

\* the last step was a call of CustomNICDriver::initialize
C_InitializeCalled == c_init_out'.calls # c_init_out.calls

\* everything initialize allocates is there
C_AllAllocated(a) ==
    /\ a.bar0_base_ = "valid"
    /\ a.rx_ring_ = "valid"
    /\ a.tx_ring_ = "valid"
    /\ \A i \in C_RxSlots : a.rx_buffers_[i] = "valid"
    /\ \A i \in C_TxSlots : a.tx_buffers_[i] = "valid"

\* C33: initialize returns true only if the register window, both rings and
\* every RX and TX buffer were allocated; when one of them was not it
\* returns false and initialized_ stays false.
C33_InitializeTrueOnlyIfAllAllocated ==
    [][C_InitializeCalled =>
          /\ c_init_out'.ret => C_AllAllocated(c_alloc')
          /\ ~C_AllAllocated(c_alloc') =>
                (~c_init_out'.ret /\ (~c_initialized_ => ~c_initialized_'))]_vars

\* C34: for an initialized SolarflareEFVI tx_posted_ stays within
\* 0 .. EFVI_TX_RING_SIZE; submit_tx with a valid length returns true and
\* adds one to tx_posted_ exactly when tx_posted_ < EFVI_TX_RING_SIZE, and
\* otherwise returns false and changes nothing; poll_tx_completions takes
\* one off tx_posted_ exactly when it is positive.
C34_TxPostedWithinRing ==
    /\ [](s_tx_posted_ \in 0 .. EFVI_TX_RING_SIZE)
    /\ [][\A len \in SolTxLens :
            (S_SubmitTx(len) /\ s_initialized_ /\ len <= EFVI_PKT_BUF_SIZE) =>
                IF s_tx_posted_ < EFVI_TX_RING_SIZE
                THEN /\ s_tx_out' = [called |-> TRUE, ret |-> TRUE]
                     /\ s_tx_posted_' = s_tx_posted_ + 1
                ELSE /\ s_tx_out' = [called |-> TRUE, ret |-> FALSE]
                     /\ UNCHANGED <<s_tx_posted_, s_mem>>]_vars
    /\ [][S_PollTxCompletions => s_tx_posted_' = s_tx_posted_ - 1]_vars
    /\ [][s_tx_posted_' < s_tx_posted_ => s_tx_posted_ > 0]_vars

\* C35: rx_posted_ never exceeds EFVI_RX_RING_SIZE, whatever the sequence of
\* initialize and poll_rx calls, and a successful poll_rx leaves it as it
\* was.
C35_RxPostedWithinRing ==
    /\ [](s_rx_posted_ <= EFVI_RX_RING_SIZE)
    /\ [][(S_PollRx /\ s_rx_out'.ret) => s_rx_posted_' = s_rx_posted_]_vars

\* the RX side of the instance: cursor, descriptors, buffers, tail register
\* and counter; and the TX side
RxSide == <<rx_head_, rx_ring_, rx_buffers_, reg_rx_tail, packets_received_>>
TxSide == <<tx_head_, tx_tail_, tx_ring_, tx_buffers_, nic_tx_ring,
            nic_tx_buffers, reg_tx_tail, packets_sent_>>

C37_ReleaseMatchesAllocation ==
    /\ []("munmap of aligned_alloc memory" \notin ub_log)
    /\ [][\A r \in Res : heap'[r].freed > heap[r].freed =>
              heap[r].how \in {"mmap", "malloc"}]_vars

\* reset_device is running: between line 425 and its return
InResetDevice == life_pc \in {"reset_test", "reset_poll"}

\* what allocate_rings and the ring programming of initialize would change
RingSetup == <<heap, rx_ring_, tx_ring_, rx_buffers_, tx_buffers_, initialized_>>
RingRegisters == <<reg_rx_base, reg_rx_size, reg_tx_base, reg_tx_size,
                   reg_rx_head, reg_rx_tail, reg_tx_head, reg_tx_tail>>

\* C38: reset_device polls the reset bit at most ResetPolls (1000) times and
\* always terminates; a poll returns true exactly when it reads the bit
\* clear and otherwise counts on; reset_device returns false only after
\* ResetPolls polls that all read the bit set, and initialize then returns
\* false with no ring allocated and no ring register programmed by the call.
C38_ResetDevicePollsBoundedAndTerminates ==
    /\ [](life_pc = "reset_poll" => rd_i < ResetPolls)
    /\ InResetDevice ~> ~InResetDevice
    /\ [][(life_pc = "reset_poll" /\ life_pc' # life_pc) =>
             IF ~reg_dev_reset
             THEN /\ life_pc' = "allocate_rings"
                  /\ init_fault' = "none"
                  /\ UNCHANGED init_out
             ELSE /\ life_pc' = "reset_test"
                  /\ rd_i' = rd_i + 1]_vars
    /\ [][(life_pc = "reset_test" /\ life_pc' # life_pc) =>
             IF rd_i < ResetPolls
             THEN life_pc' = "reset_poll" /\ UNCHANGED rd_i
             ELSE /\ rd_i = ResetPolls
                  /\ life_pc' = "idle"
                  /\ init_out' = [called |-> TRUE, ret |-> FALSE]
                  /\ init_fault' = "reset_device"]_vars
    /\ [][(life_pc = "reset_device" \/ InResetDevice) => UNCHANGED RingSetup]_vars
    /\ [][((life_pc = "reset_device" \/ InResetDevice) /\ life_pc' # life_pc) =>
             UNCHANGED RingRegisters]_vars

\* the first initialize() gave up after ResetPolls polls of a device that
\* kept the reset bit set: it returned false and no ring exists
C38_Witness ==
    /\ life_pc = "idle"
    /\ init_calls = 1
    /\ init_out = [called |-> TRUE, ret |-> FALSE]
    /\ init_fault = "reset_device"
    /\ reg_dev_reset
    /\ heap["bar0_base_"].ptr = "valid"
    /\ \A r \in {"rx_ring_", "tx_ring_", "rx_buffers_", "tx_buffers_"} :
          heap[r].ptr = "null"
    /\ reg_rx_base = 0 /\ reg_tx_base = 0

====
